---- MODULE Spec2Model ----
(***************************************************************************)
(* A model of pdblpi's request batching and response reconciliation       *)
(* (src/pdblpi/main.py): ticker normalisation, override grouping, the      *)
(* session's request/response cycle and the merge of the vendor's rows     *)
(* back onto the input rows.                                               *)
(*                                                                         *)
(* Python strings that the code takes apart (tickers) are sequences of     *)
(* one-character strings; all other strings are opaque values.             *)
(*                                                                         *)
(* What the model leaves out: override values are never null (pandas       *)
(* groupby drops rows with a null key); the vendor answers every           *)
(* requested security exactly once; a Series override is used by position  *)
(* (pandas aligns it on its index); the pivot of _BDS is kept as the set   *)
(* of the rows it is built from; sort_values is taken to be stable; the    *)
(* flush of the event queue in _create_req finds nothing to flush.         *)
(* Timeouts and foreign events are the subject of SpecDrain, a drain       *)
(* (_receive_events) run on its own over every short event stream.         *)
(*                                                                         *)
(* Other entry points have a specification each, with a frame variable     *)
(* that is Idle everywhere else: the upload retry of cde.py (SpecUpload),  *)
(* a with-block under bopen (SpecManaged), _parse_tickers on the           *)
(* documented forms (SpecNorm), the public wrappers of functions.py        *)
(* (SpecWrapped), _parse_ref and _parse_bulkref on two fields (SpecParse)  *)
(* and _bbat: its quote table (SpecQuotes), its summary (SpecStats) and    *)
(* its table of statistics (SpecVwap).  A BDH call takes its period, its   *)
(* cdr code and the type of its tickers from BdhOptions; fill, fx and      *)
(* usedpdf keep their defaults.                                            *)
(***************************************************************************)
EXTENDS Integers, Sequences, FiniteSets, TLC

(***************************************************************************)
(* Bounds of the model.                                                    *)
(***************************************************************************)
\* longest list of input tickers of one call
MaxTickers == 2
\* longest event stream handed to a stand-alone drain
MaxEvents == 3
\* largest sent_events of a stand-alone drain
MaxSent == 2
\* most tickers and dates, taken together, of one ref_hist / bulkref_hist call
MaxHistLoad == 3
\* largest num_retries of an upload; the code's default is 4
MaxRetries == 4
\* most calls a with-block under bopen makes on its connection
MaxBlock == 3
\* the values a wrapped function returns
MaxResults == 2
\* the securities of a response parsed on its own
MaxSecs == 2
\* the ticks of a day's table
MaxTicks == 4

(***************************************************************************)
(* Generic helpers on sequences.                                           *)
(***************************************************************************)
Range(s) == {s[i] : i \in 1..Len(s)}

RECURSIVE Concat(_)
\* the concatenation of a sequence of sequences
Concat(ss) == IF ss = <<>> THEN <<>> ELSE Head(ss) \o Concat(Tail(ss))

RECURSIVE Uniq(_)
\* pandas' unique: first occurrences, in order of appearance
Uniq(s) ==
    IF s = <<>> THEN <<>>
    ELSE LET r == Uniq(SubSeq(s, 1, Len(s) - 1))
             x == s[Len(s)]
         IN IF x \in Range(r) THEN r ELSE Append(r, x)

\* the positions of s, in order, whose element satisfies Test
SelectIdx(s, Test(_)) ==
    LET F[i \in 0..Len(s)] ==
            IF i = 0 THEN <<>>
            ELSE IF Test(s[i]) THEN Append(F[i - 1], i) ELSE F[i - 1]
    IN F[Len(s)]

(***************************************************************************)
(* Ticker normaliser: _parse_tickers.                                      *)
(***************************************************************************)
LowerChars == <<"a","b","c","d","e","f","g","h","i","j","k","l","m",
                "n","o","p","q","r","s","t","u","v","w","x","y","z">>
UpperChars == <<"A","B","C","D","E","F","G","H","I","J","K","L","M",
                "N","O","P","Q","R","S","T","U","V","W","X","Y","Z">>
DigitChars == {"0","1","2","3","4","5","6","7","8","9"}
UpperSet == Range(UpperChars)
AlnumSet == UpperSet \cup DigitChars

\* str.upper() on one character
UpperChar(c) ==
    IF \E i \in 1..26 : LowerChars[i] = c
    THEN UpperChars[CHOOSE i \in 1..26 : LowerChars[i] = c]
    ELSE c

StrUpper(s) == [i \in 1..Len(s) |-> UpperChar(s[i])]

RECURSIVE LStrip(_)
LStrip(s) == IF s # <<>> /\ Head(s) = " " THEN LStrip(Tail(s)) ELSE s

RECURSIVE RStrip(_)
RStrip(s) ==
    IF s # <<>> /\ s[Len(s)] = " " THEN RStrip(SubSeq(s, 1, Len(s) - 1)) ELSE s

\* str.strip()
StrStrip(s) == LStrip(RStrip(s))

\* re.compile(r"^[A-Z]{2}([A-Z0-9]){9}[0-9]").match(s)
IsinMatch(s) ==
    /\ Len(s) >= 12
    /\ \A i \in 1..2 : s[i] \in UpperSet
    /\ \A i \in 3..11 : s[i] \in AlnumSet
    /\ s[12] \in DigitChars

\* the start positions at which r" [A-Z0-9]{2} " matches
ExchAt(s, i) ==
    /\ i + 3 <= Len(s)
    /\ s[i] = " "
    /\ s[i + 1] \in AlnumSet
    /\ s[i + 2] \in AlnumSet
    /\ s[i + 3] = " "

\* a normaliser that never finds an exchange code
ExchSuffixWrong(s) == <<>>

\* ' ' + exch.findall(ticker)[0].strip(), or '' when nothing matches
ExchSuffix(s) ==
    LET hits == {i \in 1..Len(s) : ExchAt(s, i)}
    IN IF hits = {} THEN <<>>
       ELSE LET i == CHOOSE j \in hits : \A k \in hits : j <= k
            IN <<" ", s[i + 1], s[i + 2]>>

\* sub in s
Contains(s, sub) ==
    \E i \in 1..(Len(s) - Len(sub) + 1) : SubSeq(s, i, i + Len(sub) - 1) = sub

\* s.split()[0] of a stripped, non-empty string
FirstToken(s) ==
    LET sp == {i \in 1..Len(s) : s[i] = " "}
    IN IF sp = {} THEN s
       ELSE SubSeq(s, 1, (CHOOSE j \in sp : \A k \in sp : j <= k) - 1)

IsinPrefix == <<"/","i","s","i","n","/">>
SedolPrefix == <<"/","s","e","d","o","l","/">>
SedolWord == <<" ","S","E","D","O","L">>

\* one pass of the loop of _parse_tickers on one ticker
ParseTicker(t) ==
    LET ticker == StrStrip(StrUpper(t))
    IN IF IsinMatch(ticker)
       THEN IsinPrefix \o FirstToken(ticker) \o ExchSuffix(ticker)
       ELSE IF Contains(ticker, SedolWord)
       THEN SedolPrefix \o FirstToken(ticker) \o ExchSuffix(ticker)
       ELSE ticker

_parse_tickers(tickers) == [i \in 1..Len(tickers) |-> ParseTicker(tickers[i])]

(***************************************************************************)
(* The inputs of a call.                                                   *)
(***************************************************************************)
TickIbmLower == <<"i","b","m"," ","u","s">>
TickIbm == <<"I","B","M"," ","U","S">>
TickIsin == <<"I","E","0","0","B","Y","V","Z","V","7","5","7"," ","I","S","I","N">>
RawTickers == {TickIbmLower, TickIbm, TickIsin}

\* the entry points modelled
DataKinds == {"BDP", "BDS", "BDH"}
HistKinds == {"ref_hist", "bulkref_hist"}
Kinds == DataKinds \cup HistKinds

\* the values a user override takes, in Python's string order
OvVals == <<"EUR", "USD">>
\* every value a grouping column can hold, in Python's sort order
ValOrder == <<"12", "20200101", "20200102", "DAILY", "EUR", "MONTHLY",
              "NIL_VALUE", "True", "US", "USD", "dummy">>
Rank(v) == CHOOSE i \in 1..Len(ValOrder) : ValOrder[i] = v

\* the name of the one user override of the model (a **field_ovrds keyword)
OvName == "nav_crncy"

\* A user override value v of **field_ovrds: shape "none" is no keyword at
\* all, "scalar" a number, "str" a string, "list" and "Series" hold vals.
OvrdInputs(n) ==
    {[shape |-> "none", vals |-> <<>>], [shape |-> "scalar", vals |-> <<"12">>]}
    \cup {[shape |-> "str", vals |-> <<v>>] : v \in Range(OvVals)}
    \cup {[shape |-> "list", vals |-> vs] : vs \in [1..n -> Range(OvVals)]}
    \cup {[shape |-> sh, vals |-> [i \in 1..m |-> "USD"]] :
            sh \in {"list", "Series"}, m \in {n - 1, n + 1}}
    \cup {[shape |-> "Series", vals |-> [i \in 1..n |-> "USD"]]}

Dates == <<"20200101", "20200102">>

\* period, cdr and the type of tickers of a BDH call: the defaults, a
\* calendar code with the daily and with a monthly period, a Series
BdhOptions ==
    {[period |-> "D", cdr |-> "None", series |-> FALSE],
     [period |-> "D", cdr |-> "us", series |-> FALSE],
     [period |-> "M", cdr |-> "us", series |-> FALSE],
     [period |-> "D", cdr |-> "None", series |-> TRUE]}

\* start_date / end_date and the options of a BDH call, or the dates of a
\* ref_hist call
HistInputs(k) ==
    IF k = "BDH"
    THEN {[start_date |-> Dates[1], end_date |-> Dates[e], dates |-> <<>>,
           period |-> o.period, cdr |-> o.cdr, series |-> o.series] :
            e \in 1..2, o \in BdhOptions}
    ELSE IF k \in HistKinds
    THEN {[start_date |-> "", end_date |-> "", dates |-> ds,
           period |-> "D", cdr |-> "None", series |-> FALSE] :
            ds \in UNION {[1..m -> Range(Dates)] : m \in 0..(MaxHistLoad - 1)}}
    ELSE {[start_date |-> "", end_date |-> "", dates |-> <<>>,
           period |-> "D", cdr |-> "None", series |-> FALSE]}

TheField == "PX_LAST"

(***************************************************************************)
(* Errors a call ends with.                                                *)
(***************************************************************************)
NoErr == [type |-> "none", what |-> "", field |-> ""]
Raise(t, w, f) == [type |-> t, what |-> w, field |-> f]

(***************************************************************************)
(* Override broadcast and length check: the loop over field_ovrds.items()  *)
(* of _BDP, _BDS and _BDH.                                                 *)
(***************************************************************************)
\* (not Sequence and not Series) or str
IsBroadcast(v) == v.shape \in {"scalar", "str"}

\* a check that lets a list longer than the tickers through
OvrdErrorWrong(v, n) ==
    IF v.shape = "none" \/ IsBroadcast(v) \/ Len(v.vals) >= n
    THEN NoErr
    ELSE Raise("ValueError", "Invalid number of overrides", OvName)

\* the ValueError of the loop, if any
OvrdError(v, n) ==
    IF v.shape = "none" \/ IsBroadcast(v) \/ Len(v.vals) = n
    THEN NoErr
    ELSE Raise("ValueError", "Invalid number of overrides", OvName)

\* ovrds2: column name -> one value per ticker; 'dummy' is always there
OvrdNames(v) == (IF v.shape = "none" THEN <<>> ELSE <<OvName>>) \o <<"dummy">>

OvrdColumn(v, n) ==
    IF IsBroadcast(v) THEN [i \in 1..n |-> v.vals[1]] ELSE v.vals

\* Python values of the arguments of _BDH: a str and a list are never equal
PyStr(x) == [kind |-> "str", s |-> x]
PyList(xs) == [kind |-> "list", items |-> xs]

\* if isinstance(period, str): period = [period]
PeriodArg(h) == PyList(<<PyStr(h.period)>>)

\* per_lookup[p.upper()]
per_lookup(p) ==
    CASE p = "D" -> "DAILY"
      [] p = "W" -> "WEEKLY"
      [] p = "M" -> "MONTHLY"
      [] p = "S" -> "SEMI_ANNUALLY"
      [] p = "Q" -> "QUARTERLY"
      [] p = "A" -> "YEARLY"

\* c.upper() of a calendar code
CdrUpper(c) == CASE c = "us" -> "US" [] c = "US" -> "US"

\* if (period == 'DAILY') and cdr: period is the list of the raw codes
SendsCalendar(h) == PeriodArg(h) = PyStr("DAILY") /\ h.cdr # "None"

\* elms_dict of _BDH with the defaults fill='B', usedpdf=True, fx=None: every
\* one-element list is broadcast to every ticker
ElmsNames(k, h) ==
    IF k = "BDH"
    THEN <<"nonTradingDayFillMethod", "adjustmentFollowDPDF", "start_date",
           "end_date", "periodicitySelection">>
         \o (IF SendsCalendar(h) THEN <<"calendarCodeOverride">> ELSE <<>>)
    ELSE <<>>

ElmsRow(k, h) ==
    IF k = "BDH"
    THEN <<"NIL_VALUE", "True", h.start_date, h.end_date, per_lookup(h.period)>>
         \o (IF SendsCalendar(h) THEN <<CdrUpper(h.cdr)>> ELSE <<>>)
    ELSE <<>>

\* all_names: the grouping columns
AllNames(k, v, h) == OvrdNames(v) \o ElmsNames(k, h)

\* the values of the grouping columns on input row i
RowKey(k, v, h, n, i) ==
    (IF v.shape = "none" THEN <<>> ELSE <<OvrdColumn(v, n)[i]>>)
    \o <<"dummy">> \o ElmsRow(k, h)

(***************************************************************************)
(* Override grouper: params_df.groupby(names)['trans_ticker'].agg('unique')*)
(***************************************************************************)
\* lexicographic order of two keys of the same columns
RECURSIVE KeyLess(_, _)
KeyLess(a, b) ==
    IF a = <<>> THEN FALSE
    ELSE IF Rank(Head(a)) # Rank(Head(b)) THEN Rank(Head(a)) < Rank(Head(b))
    ELSE KeyLess(Tail(a), Tail(b))

RECURSIVE SortKeys(_)
\* groupby sorts the group keys
SortKeys(S) ==
    IF S = {} THEN <<>>
    ELSE LET m == CHOOSE x \in S : \A y \in S \ {x} : KeyLess(x, y)
         IN <<m>> \o SortKeys(S \ {m})

\* the trans_tickers of the rows whose key is key, in input order
TickersOfKey(keys, tt, key) ==
    LET idx == SelectIdx(keys, LAMBDA x : x = key)
    IN [j \in 1..Len(idx) |-> tt[idx[j]]]

GroupByWrong(keys, tt) ==
    [i \in 1..Len(keys) |-> [key |-> keys[i], trans_ticker |-> <<tt[i]>>]]

GroupBy(keys, tt) ==
    LET ks == SortKeys(Range(keys))
    IN [g \in 1..Len(ks) |->
          [key |-> ks[g], trans_ticker |-> Uniq(TickersOfKey(keys, tt, ks[g]))]]

(***************************************************************************)
(* The vendor service.  What it knows is fixed for a session but unknown   *)
(* to the program: the requested field is a scalar field, a bulk field,    *)
(* an invalid mnemonic or not applicable to reference data; a security is  *)
(* known with data ("ok"), known without data for the field ("nodata") or  *)
(* unknown ("secErr").  A security error comes with no field data and no   *)
(* field exception; a field exception comes with no data for the field.    *)
(***************************************************************************)
FieldStatuses == {"scalar", "bulk", "INVALID_FIELD", "NOT_APPLICABLE_TO_REF_DATA"}
SecStatuses == {"ok", "nodata", "secErr"}

\* the events of blpapi.Event; _EVENT_DICT names only some of them
EventTypes == {"ADMIN", "SESSION_STATUS", "SUBSCRIPTION_STATUS", "REQUEST_STATUS",
               "RESPONSE", "PARTIAL_RESPONSE", "SUBSCRIPTION_DATA",
               "SERVICE_STATUS", "TIMEOUT", "AUTHORIZATION_STATUS",
               "RESOLUTION_STATUS", "TOPIC_STATUS", "TOKEN_STATUS", "REQUEST"}
_EVENT_DICT == {"SESSION_STATUS", "RESPONSE", "PARTIAL_RESPONSE",
                "SERVICE_STATUS", "TIMEOUT", "REQUEST"}
_RESPONSE_TYPES == {"RESPONSE", "PARTIAL_RESPONSE"}

\* a Python str and a Python int as values of a table
Str(x) == [kind |-> "str", s |-> x]
PyInt(i) == [kind |-> "int", n |-> i]

\* the datum the vendor holds for a security under a request's overrides
\* (and on a date, for historical data)
Datum(sec, req, date) ==
    [kind |-> "scalar", security |-> sec, ovrds |-> req.ovrds, elms |-> req.elms,
     date |-> date]

\* a bulk field's value: a list of one-entry dicts
BulkDatum(sec, req) ==
    [kind |-> "list",
     items |-> <<[name |-> Str("Member"), value |-> Datum(sec, req, "first")],
                 [name |-> Str("Member"), value |-> Datum(sec, req, "second")]>>]

\* the dates of a historical request the vendor has data on
DatesBetween(sd, ed) ==
    LET idx == SelectIdx(Dates, LAMBDA d : Rank(sd) <= Rank(d) /\ Rank(d) <= Rank(ed))
    IN [j \in 1..Len(idx) |-> Dates[idx[j]]]

\* the value paired with name in a list of (name, value) tuples, or dflt
PairValue(pairs, name, dflt) ==
    IF \E i \in 1..Len(pairs) : pairs[i][1] = name
    THEN pairs[CHOOSE i \in 1..Len(pairs) : pairs[i][1] = name][2]
    ELSE dflt

OvrdValue(req, name, dflt) == PairValue(req.ovrds, name, dflt)

\* securityData of one security in a ReferenceDataResponse or a
\* HistoricalDataResponse
SecurityData(sec, req, fstatus, sst) ==
    LET isErr == sst = "secErr"
        fst == IF req.rtype = "HistoricalDataRequest" /\ fstatus = "bulk"
               THEN "NOT_APPLICABLE_TO_HIST_DATA" ELSE fstatus
        excs == IF isErr \/ fst \in {"scalar", "bulk"} THEN <<>>
                ELSE [i \in 1..Len(req.flds) |->
                        [fieldId |-> req.flds[i], subcategory |-> fst]]
        has == ~isErr /\ sst = "ok" /\ fst \in {"scalar", "bulk"}
        refDate == OvrdValue(req, "REFERENCE_DATE", "")
    IN [security |-> sec,
        securityError |-> isErr,
        fieldExceptions |-> excs,
        fieldData |->
            IF ~has THEN <<>>
            ELSE IF req.rtype = "HistoricalDataRequest"
            THEN LET ds == DatesBetween(PairValue(req.elms, "startDate", ""),
                                        PairValue(req.elms, "endDate", ""))
                 IN [j \in 1..Len(ds) |->
                       [date |-> ds[j],
                        items |-> [i \in 1..Len(req.flds) |->
                                     [fld |-> req.flds[i],
                                      value |-> Datum(sec, req, ds[j])]]]]
            ELSE [i \in 1..Len(req.flds) |->
                    [fld |-> req.flds[i],
                     value |-> IF fst = "bulk" THEN BulkDatum(sec, req)
                               ELSE Datum(sec, req, refDate)]]]

\* How the securities of one event are laid out in messages: cut[i] says
\* whether security i+1 continues the message of security i or opens a new
\* one.  A HistoricalDataResponse holds one security.
Cuts(n, rtype) ==
    [1..(n - 1) -> IF rtype = "HistoricalDataRequest" THEN {"msg"}
                   ELSE {"same", "msg"}]

RECURSIVE LayOut(_, _, _)
\* the messages (each a sequence of securityData) of the securities sds
LayOut(sds, cut, n) ==
    IF n = 0 THEN << <<>> >>
    ELSE IF n = 1 THEN << <<sds[1]>> >>
    ELSE LET prev == LayOut(sds, cut, n - 1)
         IN IF cut[n - 1] = "msg" THEN Append(prev, <<sds[n]>>)
            ELSE [prev EXCEPT ![Len(prev)] = Append(@, sds[n])]

\* one event of a response: a PARTIAL_RESPONSE, or the RESPONSE that ends it
ResponseEvent(sds, cut, cid, final) ==
    LET ms == LayOut(sds, cut, Len(sds))
    IN [type |-> IF final THEN "RESPONSE" ELSE "PARTIAL_RESPONSE",
        msgs |-> [m \in 1..Len(ms) |->
                    [correlationIds |-> <<cid>>, securityData |-> ms[m]]]]

\* the securities one event may carry, in the order it carries them: any
\* of those not yet returned, in any order
Deliveries(pending) ==
    IF pending = {} THEN {<<>>}
    ELSE UNION {{p \in [1..Cardinality(S) -> S] :
                    \A i, j \in 1..Cardinality(S) : p[i] = p[j] => i = j} :
                S \in (SUBSET pending) \ {{}}}

(***************************************************************************)
(* Values of the output tables.                                            *)
(***************************************************************************)
\* np.NaN, the float not-a-number
NaN == [kind |-> "NaN"]
\* Python's None
None == [kind |-> "None"]
SecurityNotFound == Str("security not found")

\* fld in fieldData / fieldData[fld] on a dict kept as a sequence of items
HasKey(items, fld) == \E i \in 1..Len(items) : items[i].fld = fld
Lookup(items, fld) == items[CHOOSE i \in 1..Len(items) : items[i].fld = fld].value

(***************************************************************************)
(* BCon._receive_events: what one pass of its loop does with the event it  *)
(* read.  status: "running" reads on, "stopped" is the break, "raised" an  *)
(* exception; msgs are the messages yielded before that.                   *)
(***************************************************************************)
ReceiveStepWrong(ev, sent_events) ==
    [msgs |-> IF ev.type = "RESPONSE" THEN ev.msgs ELSE <<>>,
     sent_events |-> sent_events - 1,
     status |-> IF ev.type \in _RESPONSE_TYPES THEN "stopped" ELSE "raised",
     err |-> IF ev.type \in _RESPONSE_TYPES THEN NoErr
             ELSE Raise("RuntimeError", "Timeout", "")]

ReceiveStep(ev, sent_events) ==
    IF ev.type \notin _EVENT_DICT
    THEN \* ev_name = _EVENT_DICT[ev.eventType()]
         [msgs |-> <<>>, sent_events |-> sent_events, status |-> "raised",
          err |-> Raise("KeyError", ev.type, "")]
    ELSE IF ev.type = "RESPONSE"
    THEN [msgs |-> ev.msgs, sent_events |-> sent_events - 1,
          status |-> IF sent_events - 1 = 0 THEN "stopped" ELSE "running",
          err |-> NoErr]
    ELSE IF ev.type \notin _RESPONSE_TYPES
    THEN [msgs |-> <<>>, sent_events |-> sent_events, status |-> "raised",
          err |-> IF ev.type = "TIMEOUT"
                  THEN Raise("RuntimeError", "Timeout", "")
                  ELSE Raise("RuntimeError", "Unexpected Event Type", ev.type)]
    ELSE [msgs |-> ev.msgs, sent_events |-> sent_events, status |-> "running",
          err |-> NoErr]

(***************************************************************************)
(* BCon._check_fieldExceptions                                             *)
(***************************************************************************)
_check_fieldExceptionsWrong(field_exceptions) ==
    IF field_exceptions # <<>>
    THEN Raise("ValueError", "INVALID_FIELD", field_exceptions[1].fieldId)
    ELSE NoErr

_check_fieldExceptions(field_exceptions) ==
    LET bad == {i \in 1..Len(field_exceptions) :
                   field_exceptions[i].subcategory = "INVALID_FIELD"}
    IN IF bad = {} THEN NoErr
       ELSE Raise("ValueError", "INVALID_FIELD",
                  field_exceptions[CHOOSE i \in bad : \A j \in bad : i <= j].fieldId)

(***************************************************************************)
(* A parser's running result: the rows appended to data so far and the     *)
(* exception that stopped it, if any.                                      *)
(***************************************************************************)
Parsed(rows, err) == [rows |-> rows, err |-> err]

\* run Step over the items of s, left to right, until one raises
FoldParse(s, acc, Step(_, _)) ==
    LET F[i \in 0..Len(s)] ==
            IF i = 0 THEN acc
            ELSE IF F[i - 1].err # NoErr THEN F[i - 1]
            ELSE Step(F[i - 1], s[i])
    IN F[Len(s)]

(***************************************************************************)
(* BCon._parse_ref: the body of its loop over the messages.                *)
(***************************************************************************)
\* the na_val of a security
NaValWrong(secData) == NaN

NaVal(secData) == IF secData.securityError THEN SecurityNotFound ELSE NaN

\* a loop body that appends nothing for a field the response leaves out
RefFieldStepWrong(secData, corrId, acc, fld) ==
    LET fieldData == secData.fieldData
    IN IF HasKey(fieldData, fld) /\ Lookup(fieldData, fld).kind = "list"
       THEN Parsed(acc.rows, Raise("ValueError", "bulk reference data", fld))
       ELSE IF ~HasKey(fieldData, fld) THEN acc
       ELSE Parsed(Append(acc.rows,
                     [ticker |-> secData.security, field |-> fld,
                      value |-> Lookup(fieldData, fld), corrId |-> corrId]),
                   NoErr)

RefFieldStep(secData, corrId, acc, fld) ==
    LET fieldData == secData.fieldData
    IN IF HasKey(fieldData, fld) /\ Lookup(fieldData, fld).kind = "list"
       THEN Parsed(acc.rows, Raise("ValueError", "bulk reference data", fld))
       ELSE Parsed(Append(acc.rows,
                     [ticker |-> secData.security, field |-> fld,
                      value |-> IF HasKey(fieldData, fld)
                                THEN Lookup(fieldData, fld) ELSE NaVal(secData),
                      corrId |-> corrId]),
                   NoErr)

RefSecStep(flds, corrId, acc, secData) ==
    LET exc == _check_fieldExceptions(secData.fieldExceptions)
    IN IF exc # NoErr THEN Parsed(acc.rows, exc)
       ELSE FoldParse(flds, acc,
                      LAMBDA a, fld : RefFieldStep(secData, corrId, a, fld))

_parse_ref_msg(flds, keep_corrId, acc, msg) ==
    LET corrId == IF keep_corrId THEN msg.correlationIds ELSE <<>>
    IN FoldParse(msg.securityData, acc,
                 LAMBDA a, sd : RefSecStep(flds, corrId, a, sd))

(***************************************************************************)
(* BCon._parse_bulkref: the body of its loop over the messages.            *)
(***************************************************************************)
BulkFieldStep(secData, corrId, acc, fld) ==
    LET fieldData == secData.fieldData
    IN IF HasKey(fieldData, fld) /\ Lookup(fieldData, fld).kind # "list"
       THEN Parsed(acc.rows, Raise("ValueError", "not bulk reference data", fld))
       ELSE IF HasKey(fieldData, fld)
       THEN LET items == Lookup(fieldData, fld).items
            IN Parsed(acc.rows \o
                        [i \in 1..Len(items) |->
                           [ticker |-> secData.security, field |-> fld,
                            name |-> items[i].name, value |-> items[i].value,
                            position |-> PyInt(i - 1), corrId |-> corrId]],
                      NoErr)
       ELSE Parsed(Append(acc.rows,
                     [ticker |-> secData.security, field |-> fld,
                      name |-> NaVal(secData), value |-> NaVal(secData),
                      position |-> NaVal(secData), corrId |-> corrId]),
                   NoErr)

BulkSecStep(flds, corrId, acc, secData) ==
    LET exc == _check_fieldExceptions(secData.fieldExceptions)
    IN IF exc # NoErr THEN Parsed(acc.rows, exc)
       ELSE FoldParse(flds, acc,
                      LAMBDA a, fld : BulkFieldStep(secData, corrId, a, fld))

_parse_bulkref_msg(flds, keep_corrId, acc, msg) ==
    LET corrId == IF keep_corrId THEN msg.correlationIds ELSE <<>>
    IN FoldParse(msg.securityData, acc,
                 LAMBDA a, sd : BulkSecStep(flds, corrId, a, sd))

(***************************************************************************)
(* BCon._bdh_list: the body of its loop over the messages.  A historical   *)
(* message holds the securityData of one security.                         *)
(***************************************************************************)
BdhDateRows(secData, fd) ==
    [i \in 1..Len(fd.items) |->
        [date |-> fd.date, ticker |-> secData.security,
         field |-> fd.items[i].fld, value |-> fd.items[i].value]]

\* a loop body that skips a security with a security error
_bdh_list_msgWrong(acc, msg) ==
    LET secData == msg.securityData[1]
        has_field_exception == Len(secData.fieldExceptions) > 0
    IN IF has_field_exception
       THEN Parsed(acc.rows, Raise("ValueError", "HistoricalDataResponse", ""))
       ELSE Parsed(acc.rows \o
                     Concat([j \in 1..Len(secData.fieldData) |->
                               BdhDateRows(secData, secData.fieldData[j])]),
                   NoErr)

_bdh_list_msg(acc, msg) ==
    LET secData == msg.securityData[1]
        has_security_error == secData.securityError
        has_field_exception == Len(secData.fieldExceptions) > 0
    IN IF has_security_error \/ has_field_exception
       THEN Parsed(acc.rows, Raise("ValueError", "HistoricalDataResponse", ""))
       ELSE Parsed(acc.rows \o
                     Concat([j \in 1..Len(secData.fieldData) |->
                               BdhDateRows(secData, secData.fieldData[j])]),
                   NoErr)

(***************************************************************************)
(* The state.                                                              *)
(***************************************************************************)
VARIABLES
    kind,           \* the entry point called
    tickers,        \* its tickers argument, a list
    field_ovrds,    \* its one user override (see OvrdInputs)
    hist,           \* start_date / end_date (BDH) or dates (ref_hist)
    pc,             \* where the call stands
    err,            \* the exception the call raised, or NoErr
    trans_tickers,  \* the normalised tickers
    params_df,      \* the groups: one per combination of override values
    row,            \* the group (or date) the dispatch loop is at
    sessionState,   \* "none", "started" or "stopped"
    requests,       \* every request sent on the session, in order
    inflight,       \* per request: its response events not yet read
    sent_events,    \* the countdown of _receive_events
    data,           \* the rows the running parser has appended
    all_data,       \* the rows of the finished requests, with their key
    output,         \* what the call returned
    partials,       \* the PARTIAL_RESPONSE events read so far
    fieldStatus,    \* what the vendor knows of the field, once it has said
    secStatus,      \* what the vendor knows of each security, once it has said
    stream,         \* stand-alone drain: the events the session will hand over
    sent_arg,       \* stand-alone drain: the sent_events argument
    nread,          \* stand-alone drain: the events read so far
    yielded,        \* stand-alone drain: the messages yielded so far
    gen,            \* stand-alone drain: "running", "stopped" or "raised"
    upload,         \* the frame of a running _attempt_upload_request
    managed,        \* a with-block under bopen: its session and its progress
    norm,           \* the frame of a _parse_tickers called on its own
    wrapped,        \* the frame of a public wrapper of functions.py
    parse,          \* the frame of a _parse_ref / _parse_bulkref on its own
    quotes          \* the frame of a _bbat: its ticks and its table

drainVars == <<stream, sent_arg, nread, yielded, gen>>
\* the frames of the entry points that are modelled on their own
sideVars == <<upload, managed, norm, wrapped, parse, quotes>>
callVars == <<kind, tickers, field_ovrds, hist, drainVars, sideVars>>
vars == <<kind, tickers, field_ovrds, hist, pc, err, trans_tickers, params_df,
          row, sessionState, requests, inflight, sent_events, data, all_data,
          output, partials, fieldStatus, secStatus, stream, sent_arg, nread,
          yielded, gen, sideVars>>

\* a frame of an entry point that is not running
Idle == [pc |-> "idle"]
SideIdle == upload = Idle /\ managed = Idle /\ norm = Idle
            /\ wrapped = Idle /\ parse = Idle /\ quotes = Idle

\* every security string a request can name
AllSecs == RawTickers \cup {ParseTicker(t) : t \in RawTickers}

TickerInputs(k) ==
    LET all == UNION {[1..n -> RawTickers] : n \in 1..MaxTickers}
    IN IF k \in HistKinds
       THEN {ts \in all : \A i, j \in 1..Len(ts) : ts[i] = ts[j] => i = j}
       ELSE all

Init ==
    /\ kind \in Kinds
    /\ tickers \in TickerInputs(kind)
    /\ field_ovrds \in IF kind \in HistKinds THEN {[shape |-> "none", vals |-> <<>>]}
                       ELSE OvrdInputs(Len(tickers))
    /\ hist \in HistInputs(kind)
    /\ kind \in HistKinds => Len(tickers) + Len(hist.dates) <= MaxHistLoad
    /\ pc = "call"
    /\ err = NoErr
    /\ trans_tickers = <<>>
    /\ params_df = <<>>
    /\ row = 1
    /\ sessionState = "none"
    /\ requests = <<>>
    /\ inflight = <<>>
    /\ sent_events = 0
    /\ data = <<>>
    /\ all_data = <<>>
    /\ output = <<>>
    /\ partials = 0
    /\ fieldStatus = "unknown"
    /\ secStatus = [s \in AllSecs |-> "unknown"]
    /\ stream = <<>>
    /\ sent_arg = 0
    /\ nread = 0
    /\ yielded = <<>>
    /\ gen = "idle"
    /\ SideIdle

(***************************************************************************)
(* The head of _BDP / _BDS / _BDH: normalise the tickers, broadcast and    *)
(* check the overrides, group the rows.  ref_hist and bulkref_hist take    *)
(* their tickers as they are.                                              *)
(***************************************************************************)
Call ==
    /\ pc = "call"
    /\ LET tt == IF kind \in DataKinds THEN _parse_tickers(tickers) ELSE tickers
           n == Len(tt)
           e == OvrdError(field_ovrds, n)
       IN /\ trans_tickers' = tt
          /\ err' = e
          /\ IF e # NoErr
             THEN /\ pc' = "raised"
                  /\ params_df' = <<>>
             ELSE /\ pc' = "open"
                  /\ params_df' =
                        IF kind \in DataKinds
                        THEN GroupBy([i \in 1..n |-> RowKey(kind, field_ovrds, hist, n, i)],
                                     tt)
                        ELSE <<>>
    /\ UNCHANGED <<callVars, row, sessionState, requests, inflight, sent_events,
                   data, all_data, output, partials, fieldStatus, secStatus>>

\* what the session still owes to a request: the securities whose data has
\* not come yet, and whether the final RESPONSE is still due
InFlight(req) == [pending |-> Range(req.securities), open |-> TRUE]

(***************************************************************************)
(* BCon() and BCon.start(): the session starts, _init_services opens the   *)
(* services and sends the startSession request, whose response it drains.  *)
(***************************************************************************)
StartSessionRequest ==
    [rtype |-> "startSession", securities |-> <<>>, flds |-> <<>>, ovrds |-> <<>>,
     elms |-> <<<<"showDealType", "True">>>>, cid |-> ""]

Start ==
    /\ pc = "open"
    /\ sessionState' = "started"
    /\ requests' = Append(requests, StartSessionRequest)
    /\ inflight' = Append(inflight, InFlight(StartSessionRequest))
    /\ sent_events' = 1
    /\ pc' = "init"
    /\ UNCHANGED <<callVars, err, trans_tickers, params_df, row, data, all_data,
                   output, partials, fieldStatus, secStatus>>

(***************************************************************************)
(* The requests of the dispatch loops.                                     *)
(***************************************************************************)
\* the (name, value) tuples of a group's key whose column is in keep
PairsOf(names, key, keep) ==
    LET idx == SelectIdx(names, LAMBDA c : c \in keep)
    IN [j \in 1..Len(idx) |-> <<names[idx[j]], key[idx[j]]>>]

\* con.ref / con.bulkref / con.bdh on one row of params_df: 'dummy' is never
\* sent, start_date and end_date travel as startDate and endDate
DataRequest(k, v, h, group) ==
    LET names == AllNames(k, v, h)
        ovrds == PairsOf(names, group.key, Range(OvrdNames(v)) \ {"dummy"})
        elms == PairsOf(names, group.key,
                        Range(ElmsNames(k, h)) \ {"start_date", "end_date"})
    IN IF k = "BDH"
       THEN [rtype |-> "HistoricalDataRequest", securities |-> group.trans_ticker,
             flds |-> <<TheField>>, ovrds |-> ovrds,
             elms |-> elms \o <<<<"startDate", PairValue(PairsOf(names, group.key,
                                                   {"start_date"}), "start_date", "")>>,
                                <<"endDate", PairValue(PairsOf(names, group.key,
                                                   {"end_date"}), "end_date", "")>>>>,
             cid |-> ""]
       ELSE [rtype |-> "ReferenceDataRequest", securities |-> group.trans_ticker,
             flds |-> <<TheField>>, ovrds |-> ovrds, elms |-> <<>>, cid |-> ""]

\* a _send_hist that sends every request under the first date's id
HistRequestWrong(secs, dt) ==
    [rtype |-> "ReferenceDataRequest", securities |-> secs, flds |-> <<TheField>>,
     ovrds |-> <<<<"REFERENCE_DATE", dt>>>>, elms |-> <<>>, cid |-> Dates[1]]

\* _send_hist: the one request object, its date override set to dt, sent
\* under the correlation id dt
HistRequest(secs, dt) ==
    [rtype |-> "ReferenceDataRequest", securities |-> secs, flds |-> <<TheField>>,
     ovrds |-> <<<<"REFERENCE_DATE", dt>>>>, elms |-> <<>>, cid |-> dt]

\* sendRequest: the request is on its way and all of its response is due
SendRequest(req) ==
    /\ requests' = Append(requests, req)
    /\ inflight' = Append(inflight, InFlight(req))

(***************************************************************************)
(* One pass of the dispatch loop of _BDP / _BDS / _BDH up to sendRequest.  *)
(* _create_req first flushes the session's queue: every earlier response   *)
(* has been drained by then, so there is nothing to flush.                 *)
(***************************************************************************)
Send ==
    /\ pc = "loop"
    /\ kind \in DataKinds
    /\ row <= Len(params_df)
    /\ SendRequest(DataRequest(kind, field_ovrds, hist, params_df[row]))
    /\ sent_events' = 1
    /\ data' = <<>>
    /\ pc' = "drain"
    /\ UNCHANGED <<callVars, err, trans_tickers, params_df, row, sessionState,
                   all_data, output, partials, fieldStatus, secStatus>>

(***************************************************************************)
(* BCon._send_hist: one request per date, all sent before any is drained.  *)
(***************************************************************************)
SendHistEmpty ==
    /\ pc = "loop"
    /\ kind \in HistKinds
    /\ Len(hist.dates) = 0
    /\ err' = Raise("ValueError", "dates must by non empty", "")
    /\ pc' = "raised"
    /\ UNCHANGED <<callVars, trans_tickers, params_df, row, sessionState, requests,
                   inflight, sent_events, data, all_data, output, partials,
                   fieldStatus, secStatus>>

SendHist ==
    /\ pc = "loop"
    /\ kind \in HistKinds
    /\ row <= Len(hist.dates)
    /\ SendRequest(HistRequest(trans_tickers, hist.dates[row]))
    /\ row' = row + 1
    /\ IF row = Len(hist.dates)
       THEN pc' = "drain" /\ sent_events' = Len(hist.dates)
       ELSE pc' = "loop" /\ sent_events' = sent_events
    /\ data' = <<>>
    /\ UNCHANGED <<callVars, err, trans_tickers, params_df, sessionState, all_data,
                   output, partials, fieldStatus, secStatus>>

(***************************************************************************)
(* One pass of the loop of _receive_events and what its consumer does with *)
(* the messages it yields.  The consumers: _init_services (keeps nothing   *)
(* the model needs), _parse_ref, _parse_bulkref and _bdh_list.             *)
(***************************************************************************)
ConsumeMsg(where, k, acc, msg) ==
    IF where = "init" THEN acc
    ELSE IF k = "BDP" THEN _parse_ref_msg(<<TheField>>, FALSE, acc, msg)
    ELSE IF k = "BDS" THEN _parse_bulkref_msg(<<TheField>>, FALSE, acc, msg)
    ELSE IF k = "BDH" THEN _bdh_list_msg(acc, msg)
    ELSE IF k = "ref_hist" THEN _parse_ref_msg(<<TheField>>, TRUE, acc, msg)
    ELSE _parse_bulkref_msg(<<TheField>>, TRUE, acc, msg)

\* the rows of a finished con.ref / con.bulkref / con.bdh, each with the
\* values of the grouping columns of the row of params_df it was sent for
WithKey(rows, key) ==
    [i \in 1..Len(rows) |-> [row |-> rows[i], key |-> key]]

\* The session hands over the next event: it belongs to a request r whose
\* response is not over and carries the securities secs of r not returned
\* yet, laid out by cut; the vendor settles what it knows of the field
\* (fst) and of these securities (ch) if it has not yet.
NextEvent(r, secs, cut, fst, ch) ==
    ResponseEvent([i \in 1..Len(secs) |->
                     SecurityData(secs[i], requests[r], fst, ch[i])],
                  cut, requests[r].cid, Range(secs) = inflight[r].pending)

Receive ==
    /\ pc \in {"init", "drain"}
    /\ \E r \in 1..Len(inflight) :
       \E secs \in Deliveries(inflight[r].pending) :
       \E cut \in Cuts(Len(secs), requests[r].rtype) :
       \E fst \in IF fieldStatus = "unknown" /\ secs # <<>>
                  THEN FieldStatuses ELSE {fieldStatus} :
       \E ch \in [1..Len(secs) -> SecStatuses] :
        /\ inflight[r].open
        /\ \A i \in 1..Len(secs) :
              secStatus[secs[i]] # "unknown" => ch[i] = secStatus[secs[i]]
        /\ fieldStatus' = fst
        /\ secStatus' = [s \in AllSecs |->
                            IF \E i \in 1..Len(secs) : secs[i] = s
                            THEN ch[CHOOSE i \in 1..Len(secs) : secs[i] = s]
                            ELSE secStatus[s]]
        /\ LET ev == NextEvent(r, secs, cut, fst, ch)
               step == ReceiveStep(ev, sent_events)
               parsed == FoldParse(step.msgs, Parsed(data, NoErr),
                                   LAMBDA a, m : ConsumeMsg(pc, kind, a, m))
           IN /\ inflight' = [inflight EXCEPT ![r] =
                                 [pending |-> @.pending \ Range(secs),
                                  open |-> ev.type # "RESPONSE"]]
              /\ partials' = IF ev.type = "PARTIAL_RESPONSE"
                             THEN partials + 1 ELSE partials
              /\ IF parsed.err # NoErr
                 THEN \* the consumer raised inside its for loop
                      /\ pc' = "raised"
                      /\ err' = parsed.err
                      /\ data' = parsed.rows
                      /\ UNCHANGED <<sent_events, all_data, row>>
                 ELSE IF step.status = "raised"
                 THEN /\ pc' = "raised"
                      /\ err' = step.err
                      /\ data' = parsed.rows
                      /\ UNCHANGED <<sent_events, all_data, row>>
                 ELSE IF step.status = "running"
                 THEN /\ pc' = pc
                      /\ sent_events' = step.sent_events
                      /\ data' = parsed.rows
                      /\ UNCHANGED <<err, all_data, row>>
                 ELSE \* the generator is exhausted: the consumer returns
                      /\ sent_events' = step.sent_events
                      /\ data' = <<>>
                      /\ err' = err
                      /\ IF pc = "init"
                         THEN pc' = "loop" /\ UNCHANGED <<all_data, row>>
                         ELSE IF kind \in DataKinds
                         THEN /\ all_data' = all_data \o
                                    WithKey(parsed.rows, params_df[row].key)
                              /\ row' = row + 1
                              /\ pc' = IF row + 1 > Len(params_df)
                                       THEN "merge" ELSE "loop"
                         ELSE /\ all_data' = WithKey(parsed.rows, <<>>)
                              /\ row' = row
                              /\ pc' = "merge"
    /\ UNCHANGED <<callVars, trans_tickers, params_df, sessionState, requests,
                   output>>

(***************************************************************************)
(* The reconciler: inp_df.merge(all_data, how='left', on=trans_ticker and  *)
(* the grouping columns).                                                  *)
(***************************************************************************)
\* the rows of all_data that input row i matches, in all_data's order
MatchesWrong(tt, keys, right, i) ==
    LET idx == SelectIdx(right, LAMBDA x : x.row.ticker = tt[i])
    IN [j \in 1..Len(idx) |-> right[idx[j]]]

Matches(tt, keys, right, i) ==
    LET idx == SelectIdx(right, LAMBDA x : x.row.ticker = tt[i] /\ x.key = keys[i])
    IN [j \in 1..Len(idx) |-> right[idx[j]]]

\* a row of the right table that stands for "no match": every column NaN
NoMatch == [row |-> [ticker |-> NaN, field |-> NaN, value |-> NaN, date |-> NaN],
            key |-> <<>>]

\* a merge that keeps the order in which the responses arrived
MergeLeftWrong(tt, keys, right) ==
    [i \in 1..Len(right) |-> [left |-> i, right |-> right[i]]]

\* how='left': one row per match, or one row of NaN when nothing matches;
\* each merged row remembers the input row (left) it belongs to
MergeLeft(tt, keys, right) ==
    Concat([i \in 1..Len(tt) |->
              LET ms == Matches(tt, keys, right, i)
              IN IF ms = <<>> THEN <<[left |-> i, right |-> NoMatch]>>
                 ELSE [j \in 1..Len(ms) |-> [left |-> i, right |-> ms[j]]]])

\* validate='m:1': the merge keys are unique in the right table
RightKeysUnique(right) ==
    \A a, b \in 1..Len(right) :
        (right[a].row.ticker = right[b].row.ticker /\ right[a].key = right[b].key)
            => a = b

InputKeys == [i \in 1..Len(trans_tickers) |->
                RowKey(kind, field_ovrds, hist, Len(trans_tickers), i)]

(***************************************************************************)
(* The tail of _BDP: stop the session, merge, check the length, return the *)
(* value column as a list.                                                 *)
(***************************************************************************)
FinishBDP ==
    /\ pc = "merge"
    /\ kind = "BDP"
    /\ sessionState' = "stopped"
    /\ LET inp_df == MergeLeft(trans_tickers, InputKeys, all_data)
       IN IF ~RightKeysUnique(all_data)
          THEN \* pandas.errors.MergeError is a ValueError
               /\ pc' = "raised"
               /\ err' = Raise("ValueError", "MergeError", "")
               /\ output' = output
          ELSE IF Len(inp_df) # Len(tickers)
          THEN /\ pc' = "raised"
               /\ err' = Raise("ValueError", "uneven length", "")
               /\ output' = output
          ELSE /\ pc' = "returned"
               /\ err' = err
               /\ output' = [i \in 1..Len(inp_df) |-> inp_df[i].right.row.value]
    /\ UNCHANGED <<callVars, trans_tickers, params_df, row, requests, inflight,
                   sent_events, data, all_data, partials, fieldStatus, secStatus>>

(***************************************************************************)
(* The tail of _BDS: stop the session, merge (validate='m:m' checks        *)
(* nothing) and pivot the names into columns.  The pivot groups on every   *)
(* column but name and value and drops the rows where one of them is NaN;  *)
(* the result is kept here as the set of the surviving long rows.          *)
(***************************************************************************)
FinishBDS ==
    /\ pc = "merge"
    /\ kind = "BDS"
    /\ sessionState' = "stopped"
    /\ LET inp_df == MergeLeft(trans_tickers, InputKeys, all_data)
           kept == {i \in 1..Len(inp_df) :
                       /\ inp_df[i].right # NoMatch
                       /\ inp_df[i].right.row.name # NaN
                       /\ inp_df[i].right.row.position # NaN}
       IN output' = {[ticker |-> tickers[inp_df[i].left],
                      field |-> inp_df[i].right.row.field,
                      position |-> inp_df[i].right.row.position,
                      name |-> inp_df[i].right.row.name,
                      value |-> inp_df[i].right.row.value] : i \in kept}
    /\ pc' = "returned"
    /\ UNCHANGED <<callVars, err, trans_tickers, params_df, row, requests, inflight,
                   sent_events, data, all_data, partials, fieldStatus, secStatus>>

(***************************************************************************)
(* The tail of _BDH: stop the session, merge, and return the value column  *)
(* as a list when start_date equals end_date, the table of (ticker, date,  *)
(* field) otherwise.  When tickers is a Series the table takes its index;  *)
(* with equal dates output is then the value column, a Series, and         *)
(* output[['orig_ticker', 'date', 'value']] looks three labels up in it.   *)
(***************************************************************************)
\* the index of a tickers Series: one label per position
SeriesIndex == <<"a", "b", "c", "d">>

FinishBDH ==
    /\ pc = "merge"
    /\ kind = "BDH"
    /\ sessionState' = "stopped"
    /\ LET inp_df == MergeLeft(trans_tickers, InputKeys, all_data)
       IN IF hist.start_date = hist.end_date
          THEN IF hist.series
               THEN /\ pc' = "raised"
                    /\ err' = Raise("KeyError", "orig_ticker", "")
                    /\ output' = output
               ELSE /\ pc' = "returned"
                    /\ err' = err
                    /\ output' = [i \in 1..Len(inp_df) |-> inp_df[i].right.row.value]
          ELSE /\ pc' = "returned"
               /\ err' = err
               /\ output' =
                    [i \in 1..Len(inp_df) |->
                       [index |-> IF hist.series THEN SeriesIndex[inp_df[i].left]
                                  ELSE PyInt(i - 1),
                        ticker |-> tickers[inp_df[i].left],
                        date |-> inp_df[i].right.row.date,
                        value |-> inp_df[i].right.row.value]]
    /\ UNCHANGED <<callVars, trans_tickers, params_df, row, requests, inflight,
                   sent_events, data, all_data, partials, fieldStatus, secStatus>>

(***************************************************************************)
(* The tail of ref_hist and bulkref_hist: the correlation id becomes the   *)
(* date column and the rows are sorted by date (bulkref_hist: by date,     *)
(* then position).  The sort is taken to keep the order of equal rows.     *)
(***************************************************************************)
\* the order of the position column: numbers, then strings, NaN last
PositionRank(pos) ==
    IF pos = NaN THEN 2 ELSE IF pos = SecurityNotFound THEN 1 ELSE 0

PositionLess(a, b) ==
    \/ PositionRank(a) < PositionRank(b)
    \/ PositionRank(a) = 0 /\ PositionRank(b) = 0 /\ a.n < b.n

HistRowLess(k, a, b) ==
    \/ Rank(a.corrId[1]) < Rank(b.corrId[1])
    \/ /\ k = "bulkref_hist"
       /\ a.corrId[1] = b.corrId[1]
       /\ PositionLess(a.position, b.position)

RECURSIVE SortHist(_, _)
\* a stable selection sort
SortHist(k, rows) ==
    IF rows = <<>> THEN <<>>
    ELSE LET m == CHOOSE i \in 1..Len(rows) :
                    /\ \A j \in 1..Len(rows) : ~HistRowLess(k, rows[j], rows[i])
                    /\ \A j \in 1..(i - 1) : HistRowLess(k, rows[i], rows[j])
                                             \/ HistRowLess(k, rows[j], rows[i])
             rest == [j \in 1..(Len(rows) - 1) |->
                        IF j < m THEN rows[j] ELSE rows[j + 1]]
         IN <<rows[m]>> \o SortHist(k, rest)

FinishHist ==
    /\ pc = "merge"
    /\ kind \in HistKinds
    /\ output' = SortHist(kind, [i \in 1..Len(all_data) |-> all_data[i].row])
    /\ pc' = "returned"
    /\ UNCHANGED <<callVars, err, trans_tickers, params_df, row, sessionState,
                   requests, inflight, sent_events, data, all_data, partials,
                   fieldStatus, secStatus>>

Next ==
    \/ Call
    \/ Start
    \/ Send
    \/ SendHistEmpty
    \/ SendHist
    \/ Receive
    \/ FinishBDP
    \/ FinishBDS
    \/ FinishBDH
    \/ FinishHist

Spec == Init /\ [][Next]_vars

(***************************************************************************)
(* BCon._receive_events on its own: the generator is run to its end on an  *)
(* arbitrary stream of events.  When the stream is over nothing comes any  *)
(* more and nextEvent(timeout) hands over a TIMEOUT event.                 *)
(***************************************************************************)
\* the event types of the streams
DrainTypes == {"RESPONSE", "PARTIAL_RESPONSE", "TIMEOUT", "SERVICE_STATUS",
               "REQUEST_STATUS"}

\* an event of a stream: its type and how many messages it holds
DrainEvents ==
    {[type |-> t, n |-> k] : t \in _RESPONSE_TYPES, k \in {1, 2}}
    \cup {[type |-> t, n |-> 1] : t \in DrainTypes \ _RESPONSE_TYPES}

\* the i-th event the session hands over; its messages are named <<i, j>>
EventAt(st, i) ==
    IF i <= Len(st)
    THEN [type |-> st[i].type, msgs |-> [j \in 1..st[i].n |-> <<i, j>>]]
    ELSE [type |-> "TIMEOUT", msgs |-> <<>>]

InitDrain ==
    /\ stream \in UNION {[1..m -> DrainEvents] : m \in 0..MaxEvents}
    /\ sent_arg \in 1..MaxSent
    /\ sent_events = sent_arg
    /\ nread = 0
    /\ yielded = <<>>
    /\ gen = "running"
    /\ kind = "BDP"
    /\ tickers = <<>>
    /\ field_ovrds = [shape |-> "none", vals |-> <<>>]
    /\ hist = [start_date |-> "", end_date |-> "", dates |-> <<>>]
    /\ pc = "generator"
    /\ err = NoErr
    /\ trans_tickers = <<>>
    /\ params_df = <<>>
    /\ row = 1
    /\ sessionState = "started"
    /\ requests = <<>>
    /\ inflight = <<>>
    /\ data = <<>>
    /\ all_data = <<>>
    /\ output = <<>>
    /\ partials = 0
    /\ fieldStatus = "unknown"
    /\ secStatus = [s \in AllSecs |-> "unknown"]
    /\ SideIdle

\* one pass of the while loop of _receive_events
DrainNext ==
    /\ gen = "running"
    /\ LET step == ReceiveStep(EventAt(stream, nread + 1), sent_events)
       IN /\ nread' = nread + 1
          /\ yielded' = yielded \o step.msgs
          /\ sent_events' = step.sent_events
          /\ gen' = step.status
          /\ err' = step.err
    /\ UNCHANGED <<kind, tickers, field_ovrds, hist, pc, trans_tickers, params_df,
                   row, sessionState, requests, inflight, data, all_data, output,
                   partials, fieldStatus, secStatus, stream, sent_arg, sideVars>>

NextDrain == DrainNext

SpecDrain == InitDrain /\ [][NextDrain]_vars

(***************************************************************************)
(* The entry points that are modelled on their own: no call of _BDP, _BDS, *)
(* _BDH, ref_hist or bulkref_hist and no stand-alone drain is running.     *)
(***************************************************************************)
mainVars == <<kind, tickers, field_ovrds, hist, pc, err, trans_tickers, params_df,
              row, sessionState, requests, inflight, sent_events, data, all_data,
              output, partials, fieldStatus, secStatus, drainVars>>

MainIdle ==
    /\ kind = "BDP"
    /\ tickers = <<>>
    /\ field_ovrds = [shape |-> "none", vals |-> <<>>]
    /\ hist = [start_date |-> "", end_date |-> "", dates |-> <<>>]
    /\ pc = "idle"
    /\ err = NoErr
    /\ trans_tickers = <<>>
    /\ params_df = <<>>
    /\ row = 1
    /\ sessionState = "none"
    /\ requests = <<>>
    /\ inflight = <<>>
    /\ sent_events = 0
    /\ data = <<>>
    /\ all_data = <<>>
    /\ output = <<>>
    /\ partials = 0
    /\ fieldStatus = "unknown"
    /\ secStatus = [s \in AllSecs |-> "unknown"]
    /\ stream = <<>>
    /\ sent_arg = 0
    /\ nread = 0
    /\ yielded = <<>>
    /\ gen = "idle"

\* every frame but the one named is idle / stays as it is
OthersIdle(e) ==
    /\ (e = "upload" \/ upload = Idle)
    /\ (e = "managed" \/ managed = Idle)
    /\ (e = "norm" \/ norm = Idle)
    /\ (e = "wrapped" \/ wrapped = Idle)
    /\ (e = "parse" \/ parse = Idle)
    /\ (e = "quotes" \/ quotes = Idle)

OthersUnchanged(e) ==
    /\ (IF e = "upload" THEN TRUE ELSE UNCHANGED upload)
    /\ (IF e = "managed" THEN TRUE ELSE UNCHANGED managed)
    /\ (IF e = "norm" THEN TRUE ELSE UNCHANGED norm)
    /\ (IF e = "wrapped" THEN TRUE ELSE UNCHANGED wrapped)
    /\ (IF e = "parse" THEN TRUE ELSE UNCHANGED parse)
    /\ (IF e = "quotes" THEN TRUE ELSE UNCHANGED quotes)

(***************************************************************************)
(* cde._attempt_upload_request(con, upload_request, num_retries): one      *)
(* action per pass of its while loop and one for what follows the loop.    *)
(* The vendor answers an upload with one RESPONSE event of some messages,  *)
(* the last of which carries the status; a drain that raises (see          *)
(* SpecDrain) or a sendRequest that raises ends the call.                  *)
(***************************************************************************)
\* the statuses a vendor gives an upload; the code knows 'S_SUCCESS' only
S_SUCCESS == Str("S_SUCCESS")
UploadStatuses == {S_SUCCESS, Str("S_FAILURE"), Str("S_INVALID")}

\* what one send-and-drain can come to: messages with a status, no message
\* at all, an exception out of sendRequest or out of _receive_events
UploadOutcomes ==
    {[what |-> "response", status |-> st, msgs |-> n] :
        st \in UploadStatuses, n \in {1, 2}}
    \cup {[what |-> w, status |-> None, msgs |-> 0] :
             w \in {"no message", "send raises", "drain raises"}}

\* a loop that tries as long as attempts remain, whatever the status
UploadContinueWrong(result_status_code, attempts_remaining) ==
    attempts_remaining # 0

\* the condition of the while loop; an int is true when it is not 0
UploadContinue(result_status_code, attempts_remaining) ==
    result_status_code # S_SUCCESS /\ attempts_remaining # 0

InitUpload ==
    /\ MainIdle
    /\ OthersIdle("upload")
    /\ \E n \in 0..MaxRetries :
          upload = [pc |-> "while", num_retries |-> n, attempts_remaining |-> n,
                    result_status_code |-> None, resp |-> [bound |-> FALSE],
                    sent |-> <<>>, err |-> NoErr]

\* one pass of the loop
UploadPass ==
    /\ upload.pc = "while"
    /\ UploadContinue(upload.result_status_code, upload.attempts_remaining)
    /\ \E o \in UploadOutcomes :
          LET left == upload.attempts_remaining - 1
              n == Len(upload.sent) + 1
          IN upload' =
               IF o.what = "send raises"
               THEN [upload EXCEPT !.attempts_remaining = left, !.pc = "raised",
                                   !.err = Raise("Exception", "sendRequest", "")]
               ELSE IF o.what = "drain raises"
               THEN [upload EXCEPT !.attempts_remaining = left, !.pc = "raised",
                                   !.sent = Append(@, o),
                                   !.resp = [bound |-> TRUE, msg |-> None],
                                   !.err = Raise("RuntimeError", "Timeout", "")]
               ELSE IF o.what = "no message"
               THEN \* resp is None: resp['element'] is a TypeError
                    [upload EXCEPT !.attempts_remaining = left, !.pc = "raised",
                                   !.sent = Append(@, o),
                                   !.resp = [bound |-> TRUE, msg |-> None],
                                   !.err = Raise("TypeError", "NoneType", "")]
               ELSE [upload EXCEPT !.attempts_remaining = left,
                                   !.sent = Append(@, o),
                                   !.resp = [bound |-> TRUE,
                                             msg |-> [attempt |-> n, nth |-> o.msgs,
                                                      status |-> o.status]],
                                   !.result_status_code = o.status]
    /\ UNCHANGED mainVars
    /\ OthersUnchanged("upload")

\* return resp, result_status_code
UploadReturn ==
    /\ upload.pc = "while"
    /\ ~UploadContinue(upload.result_status_code, upload.attempts_remaining)
    /\ upload' = IF upload.resp.bound
                 THEN [upload EXCEPT !.pc = "returned"]
                 ELSE [upload EXCEPT !.pc = "raised",
                                     !.err = Raise("UnboundLocalError", "resp", "")]
    /\ UNCHANGED mainVars
    /\ OthersUnchanged("upload")

NextUpload ==
    \/ UploadPass
    \/ UploadReturn

SpecUpload == InitUpload /\ [][NextUpload]_vars

\* a call that can take a step takes it: Python runs the loop on
SpecUploadFair == SpecUpload /\ WF_vars(NextUpload)

(***************************************************************************)
(* bopen, the context manager: con = BCon(kwargs); con.start(); then the *)
(* with-block runs at the yield, and the finally clause runs con.stop()    *)
(* when the block is left.  The block makes calls on con, any of which can *)
(* raise; it does not stop the session itself.                             *)
(***************************************************************************)
\* what con.start() can come to
StartOutcomes == {"ok", "ConnectionError", "RuntimeError"}

\* the calls a with-block makes on its connection
BlockCalls == {"ref", "bulkref", "bdh"}

\* an exit that stops the session only when the block did not raise
StopsOnExitWrong(stops, exc) == IF exc = NoErr THEN stops + 1 ELSE stops

\* finally: con.stop() calls self._session.stop(), whatever left the block
StopsOnExit(stops, exc) == stops + 1

InitManaged ==
    /\ MainIdle
    /\ OthersIdle("managed")
    /\ managed = [pc |-> "start", started |-> FALSE, stops |-> 0,
                  calls |-> <<>>, exc |-> NoErr]

\* con = BCon(kwargs); con.start(): outside the try
BopenStart ==
    /\ managed.pc = "start"
    /\ \E o \in StartOutcomes :
          managed' = IF o = "ok"
                     THEN [managed EXCEPT !.pc = "block", !.started = TRUE]
                     ELSE [managed EXCEPT !.pc = "left",
                                          !.exc = Raise(o, "start", "")]
    /\ UNCHANGED mainVars
    /\ OthersUnchanged("managed")

\* the block makes a call on con that returns
BlockCall ==
    /\ managed.pc = "block"
    /\ Len(managed.calls) < MaxBlock
    /\ \E c \in BlockCalls : managed' = [managed EXCEPT !.calls = Append(@, c)]
    /\ UNCHANGED mainVars
    /\ OthersUnchanged("managed")

\* the block runs off its end: the generator resumes and the finally runs
BlockExit ==
    /\ managed.pc = "block"
    /\ managed' = [managed EXCEPT !.pc = "left",
                                  !.stops = StopsOnExit(@, NoErr)]
    /\ UNCHANGED mainVars
    /\ OthersUnchanged("managed")

\* a call of the block raises: the exception is thrown into the generator
\* at the yield, the finally runs and the exception goes on
BlockRaise ==
    /\ managed.pc = "block"
    /\ \E c \in BlockCalls, t \in {"ValueError", "RuntimeError"} :
          LET e == Raise(t, c, "")
          IN managed' = [managed EXCEPT !.pc = "left", !.exc = e,
                                        !.stops = StopsOnExit(@, e)]
    /\ UNCHANGED mainVars
    /\ OthersUnchanged("managed")

NextManaged ==
    \/ BopenStart
    \/ BlockCall
    \/ BlockExit
    \/ BlockRaise

SpecManaged == InitManaged /\ [][NextManaged]_vars

(***************************************************************************)
(* _parse_tickers on its own: the forms the docstring of BDP documents     *)
(* (functions.py 12-19), some of them in lower case or padded, as a list   *)
(* or as one bare string.                                                  *)
(***************************************************************************)
DocIsin == <<"I","E","0","0","B","Y","V","Z","V","7","5","7"," ","I","S","I","N">>
DocIsinSource == <<"I","E","0","0","B","Y","V","Z","V","7","5","7","@","B","V","A","L"," ","I","S","I","N">>
DocIsinExch == <<"I","E","0","0","B","Y","V","Z","V","7","5","7"," ","L","N"," ","I","S","I","N">>
DocSedol == <<"2","0","4","6","2","5","1"," ","S","E","D","O","L">>
DocSedolSource == <<"2","0","4","6","2","5","1","@","B","G","N"," ","S","E","D","O","L">>
DocSedolExch == <<"2","0","4","6","2","5","1"," ","U","S"," ","S","E","D","O","L">>
DocTicker == <<"B","B","E","G"," ","L","N"," ","E","q","u","i","t","y">>
LowerSedolExch == <<" ","2","0","4","6","2","5","1"," ","u","s"," ","s","e","d","o","l"," ">>
LowerIsinExch == <<"i","e","0","0","b","y","v","z","v","7","5","7"," ","l","n"," ","i","s","i","n">>
IsinAsSedol == <<"I","E","0","0","B","Y","V","Z","V","7","5","7"," ","S","E","D","O","L">>
DocForms == {DocIsin, DocIsinSource, DocIsinExch, DocSedol, DocSedolSource, DocSedolExch, DocTicker}
NormForms == DocForms \cup {LowerSedolExch, LowerIsinExch, IsinAsSedol}

\* tickers: a list of up to MaxTickers forms, or one form as a bare str
NormInputs ==
    {[str |-> FALSE, val |-> l] :
        l \in UNION {[1..n -> NormForms] : n \in 0..MaxTickers}}
    \cup {[str |-> TRUE, val |-> t] : t \in NormForms}

InitNorm ==
    /\ MainIdle
    /\ OthersIdle("norm")
    /\ \E a \in NormInputs :
          norm = [pc |-> "call", tickers |-> a, new_tick |-> <<>>]

\* _parse_tickers(tickers): a bare str is a list of one
NormCall ==
    /\ norm.pc = "call"
    /\ LET tickers_ == IF norm.tickers.str THEN <<norm.tickers.val>>
                       ELSE norm.tickers.val
       IN norm' = [norm EXCEPT !.pc = "returned",
                               !.new_tick = _parse_tickers(tickers_)]
    /\ UNCHANGED mainVars
    /\ OthersUnchanged("norm")

NextNorm == NormCall

SpecNorm == InitNorm /\ [][NextNorm]_vars

(***************************************************************************)
(* The public wrappers of functions.py: each evaluates the arguments of    *)
(* its one call in order, every name looked up among its own parameters    *)
(* and then among the names of the module, and returns what the call       *)
(* returns.                                                                *)
(***************************************************************************)
Wrappers == {"BBAT", "BQL", "HDS"}

\* the parameters of each wrapper
WrapperParams(fn) ==
    CASE fn = "BBAT" -> {"tickers", "sd", "ed", "inav", "fair_value", "summary"}
      [] fn = "BQL" -> {"universe", "expression", "query", "show_dates",
                        "show_headers", "show_query", "show_ids", "transpose",
                        "sort_dates_desc", "group_by_fields", "show_all_cols"}
      [] fn = "HDS" -> {"tickers"}

\* the names functions.py binds: its one import and its definitions
ModuleNames ==
    {"_BDP", "_BDH", "_BDS", "_BEQS", "_SECF", "_BCDE", "_HDS", "_BQL", "_MEMB",
     "_EPRX", "_BBAT", "_BDIT", "BDP", "BDH", "BDS", "BEQS", "BDIT", "SECF",
     "BCDE", "HDS", "BQL", "MEMB", "EPRX", "BBAT"}

\* the names the call of each wrapper reads, in the order it evaluates them
CallNames(fn) ==
    CASE fn = "BBAT" -> <<"_BBAT", "tickers", "sd", "ed", "inav", "fair_value",
                          "qrm", "summary">>
      [] fn = "BQL" -> <<"_BQL", "universe", "expresion", "query", "show_dates",
                         "show_headers", "show_query", "show_ids", "transpose",
                         "sort_dates_desc", "group_by_fields", "show_all_cols">>
      [] fn = "HDS" -> <<"_HDS", "tickers">>

\* the names of the call that nothing binds
UnboundNames(fn) ==
    SelectSeq(CallNames(fn), LAMBDA n : n \notin WrapperParams(fn) \cup ModuleNames)

\* what the wrapped function does with the arguments: a result or an error
InnerOutcomes ==
    {[kind |-> "value", v |-> x] : x \in 1..MaxResults}
    \cup {[kind |-> "raise", type |-> t] : t \in {"ValueError", "RuntimeError"}}

\* the arguments that matter to the model: tickers and two flags
WrapperArgs ==
    [tickers : UNION {[1..n -> RawTickers] : n \in 1..MaxTickers},
     inav : BOOLEAN, summary : BOOLEAN]

InitWrapped ==
    /\ MainIdle
    /\ OthersIdle("wrapped")
    /\ \E fn \in Wrappers, a \in WrapperArgs, o \in InnerOutcomes :
          wrapped = [pc |-> "call", fn |-> fn, args |-> a, inner |-> o,
                     called |-> FALSE, result |-> None]

\* the wrapper's return statement
WrapperCall ==
    /\ wrapped.pc = "call"
    /\ LET unbound == UnboundNames(wrapped.fn)
       IN wrapped' =
            IF unbound # <<>>
            THEN [wrapped EXCEPT !.pc = "done",
                                 !.result = [kind |-> "raise", type |-> "NameError",
                                             name |-> unbound[1]]]
            ELSE [wrapped EXCEPT !.pc = "done", !.called = TRUE,
                                 !.result = wrapped.inner]
    /\ UNCHANGED mainVars
    /\ OthersUnchanged("wrapped")

NextWrapped == WrapperCall

SpecWrapped == InitWrapped /\ [][NextWrapped]_vars

(***************************************************************************)
(* _parse_ref and _parse_bulkref on their own, with two requested fields:  *)
(* the messages a drain yields hold up to MaxSecs securities, each with a  *)
(* security error, or with each field left out, a scalar or a list, the    *)
(* second field possibly under a field exception.                          *)
(***************************************************************************)
ParseFlds == <<"PX_LAST", "INDX_MEMBERS">>
SecNames == <<"A US", "B US", "C US", "D US">>

\* what a response says of one field of one security
FieldShapes == {"absent", "scalar", "list"}
ExcShapes == {"INVALID_FIELD", "NOT_APPLICABLE_TO_REF_DATA"}

\* what a response says of one security
SecShapes ==
    {[err |-> TRUE, f1 |-> "absent", f2 |-> "absent"]}
    \cup {[err |-> FALSE, f1 |-> a, f2 |-> b] :
            a \in FieldShapes, b \in FieldShapes \cup ExcShapes}

\* the value a field of shape sh has
ShapeValue(sec, fld, sh) ==
    IF sh = "list"
    THEN [kind |-> "list",
          items |-> <<[name |-> Str("Member"),
                       value |-> [kind |-> "scalar", security |-> sec, fld |-> fld]]>>]
    ELSE [kind |-> "scalar", security |-> sec, fld |-> fld]

\* the securityData of the i-th security of a response
ShapedSecurity(i, sh) ==
    LET shapes == <<sh.f1, sh.f2>>
        idx == SelectIdx(ParseFlds, LAMBDA f :
                   shapes[CHOOSE k \in 1..2 : ParseFlds[k] = f] \in {"scalar", "list"})
    IN [security |-> SecNames[i],
        securityError |-> sh.err,
        fieldExceptions |-> IF sh.f2 \in ExcShapes
                            THEN <<[fieldId |-> ParseFlds[2], subcategory |-> sh.f2]>>
                            ELSE <<>>,
        fieldData |-> [j \in 1..Len(idx) |->
                         [fld |-> ParseFlds[idx[j]],
                          value |-> ShapeValue(SecNames[i], ParseFlds[idx[j]],
                                               shapes[idx[j]])]]]

\* the messages of a response on n securities: all in one message, or one
\* message each
ParseInputs ==
    UNION {{[shapes |-> shs, split |-> sp] :
              shs \in [1..n -> SecShapes], sp \in BOOLEAN} : n \in 1..MaxSecs}

ParseMsgs(inp) ==
    LET sds == [i \in 1..Len(inp.shapes) |-> ShapedSecurity(i, inp.shapes[i])]
    IN IF inp.split
       THEN [i \in 1..Len(sds) |-> [correlationIds |-> <<"">>, securityData |-> <<sds[i]>>]]
       ELSE <<[correlationIds |-> <<"">>, securityData |-> sds]>>

InitParse ==
    /\ MainIdle
    /\ OthersIdle("parse")
    /\ \E which \in {"_parse_ref", "_parse_bulkref"}, inp \in ParseInputs :
          parse = [pc |-> "call", which |-> which, inp |-> inp,
                   msgs |-> ParseMsgs(inp), data |-> <<>>, err |-> NoErr]

\* the parser runs over every message the drain yields and returns data,
\* or raises
ParseCall ==
    /\ parse.pc = "call"
    /\ LET r == IF parse.which = "_parse_ref"
                THEN FoldParse(parse.msgs, Parsed(<<>>, NoErr),
                               LAMBDA a, m : _parse_ref_msg(ParseFlds, FALSE, a, m))
                ELSE FoldParse(parse.msgs, Parsed(<<>>, NoErr),
                               LAMBDA a, m : _parse_bulkref_msg(ParseFlds, FALSE, a, m))
       IN parse' = [parse EXCEPT !.pc = IF r.err = NoErr THEN "returned" ELSE "raised",
                                 !.data = IF r.err = NoErr THEN r.rows ELSE <<>>,
                                 !.err = r.err]
    /\ UNCHANGED mainVars
    /\ OthersUnchanged("parse")

NextParse == ParseCall

SpecParse == InitParse /\ [][NextParse]_vars

(***************************************************************************)
(* _bbat with inav=False and fair_value=None, from the ticks _BDIT hands   *)
(* it to the table of line 2142: one row per tick, sorted by time, the bid *)
(* and ask columns filled forward within each day.  A tick is (time, type, *)
(* value, size); condition codes are left out, and so are the size columns *)
(* of the bids and asks.  The ticks are taken as the vendor sends them, in *)
(* any order and from any day; _BDIT drops the ticks that repeat an        *)
(* earlier one.                                                            *)
(***************************************************************************)
TickTypes == {"BEST_BID", "BEST_ASK", "TRADE"}
\* the times of the ticks, in seconds, and the seconds of a day
MaxTime == 4
DaySecs == 4
TickTimes == 0..MaxTime
TickValues == {1, 2}

\* df['time'].dt.date
DateOf(t) == t \div DaySecs

Ticks ==
    {[time |-> t, type |-> ty, value |-> v, size |-> 1] :
        t \in TickTimes, ty \in {"BEST_BID", "BEST_ASK"}, v \in TickValues}
    \cup {[time |-> t, type |-> "TRADE", value |-> 1, size |-> 1] : t \in TickTimes}

\* _BDIT: drop_duplicates(subset=['orig_ticker', 'time', 'type', 'value']),
\* the size of a tick is not looked at
BditTicks(d) ==
    LET key(e) == <<e.time, e.type, e.value>>
        idx == SelectIdx([i \in 1..Len(d) |-> i],
                         LAMBDA i : \A j \in 1..(i - 1) : key(d[j]) # key(d[i]))
    IN [k \in 1..Len(idx) |-> d[idx[k]]]

\* a number in a cell of the table: floats are kept as exact fractions n/d
\* in lowest terms, d > 0 (rounding is left out); NaN is the missing value
Px(v) == [kind |-> "float", n |-> v, d |-> 1]

Abs(x) == IF x < 0 THEN 0 - x ELSE x

RECURSIVE GCD(_, _)
GCD(a, b) == IF b = 0 THEN a ELSE GCD(b, a % b)

\* the float n/d, d # 0
Frac(n, d) ==
    LET g == GCD(Abs(n), Abs(d))
        sgn == IF d < 0 THEN 0 - 1 ELSE 1
    IN [kind |-> "float", n |-> (sgn * n) \div g, d |-> (sgn * d) \div g]

\* numpy's x / 0 for x # 0 (no path of the model computes with it further)
Inf == [kind |-> "inf"]

\* float arithmetic: NaN in, NaN out; 0 / 0 is NaN
FAdd(a, b) == IF a = NaN \/ b = NaN THEN NaN ELSE Frac(a.n * b.d + b.n * a.d, a.d * b.d)
FSub(a, b) == IF a = NaN \/ b = NaN THEN NaN ELSE Frac(a.n * b.d - b.n * a.d, a.d * b.d)
FMul(a, b) == IF a = NaN \/ b = NaN THEN NaN ELSE Frac(a.n * b.n, a.d * b.d)
FDiv(a, b) ==
    IF a = NaN \/ b = NaN THEN NaN
    ELSE IF b.n = 0 THEN (IF a.n = 0 THEN NaN ELSE Inf)
    ELSE Frac(a.n * b.d, a.d * b.n)

\* Series.sum(): the missing values are skipped, an empty sum is 0
FSum(col) ==
    LET F[i \in 0..Len(col)] ==
            IF i = 0 THEN Px(0)
            ELSE IF col[i] = NaN THEN F[i - 1] ELSE FAdd(F[i - 1], col[i])
    IN F[Len(col)]

\* Series.expanding().sum(): the sum of the values so far, NaN while there
\* is none
ExpandingSum(col) ==
    [i \in 1..Len(col) |->
        IF \A j \in 1..i : col[j] = NaN THEN NaN ELSE FSum(SubSeq(col, 1, i))]

\* Series.fillna(method='ffill') and Series.fillna(0)
FFill(col) ==
    [i \in 1..Len(col) |->
        LET prev == {j \in 1..i : col[j] # NaN}
        IN IF prev = {} THEN NaN ELSE col[CHOOSE j \in prev : \A k \in prev : k <= j]]
FillZero(col) == [i \in 1..Len(col) |-> IF col[i] = NaN THEN Px(0) ELSE col[i]]

\* the column col of a table
Column(rows, col) == [i \in 1..Len(rows) |-> rows[i][col]]

\* set_index([ticker, time, type], append=True).unstack(): the row of one
\* tick holds its value in the column of its type and NaN elsewhere
PivotRow(e) ==
    [time |-> e.time,
     BEST_BID_VALUE |-> IF e.type = "BEST_BID" THEN Px(e.value) ELSE NaN,
     BEST_ASK_VALUE |-> IF e.type = "BEST_ASK" THEN Px(e.value) ELSE NaN,
     TRADE_VALUE |-> IF e.type = "TRADE" THEN Px(e.value) ELSE NaN,
     TRADE_SIZE |-> IF e.type = "TRADE" THEN Px(e.size) ELSE NaN]

\* sort_values(by=['ticker', 'time']) on one ticker: rows of equal time
\* keep their order
SortByTime(rows) ==
    Concat([k \in 1..(MaxTime + 1) |-> SelectSeq(rows, LAMBDA r : r.time = k - 1)])

\* the columns the loop of line 2137 fills: 'ASK' in col or 'BID' in col
FilledCols == {"BEST_BID_VALUE", "BEST_ASK_VALUE"}

\* df[col].groupby([df['ticker'], df['time'].dt.date]).fillna(method='ffill')
FillForward(rows, col) ==
    [i \in 1..Len(rows) |->
        LET prev == {j \in 1..i : /\ DateOf(rows[j].time) = DateOf(rows[i].time)
                                  /\ rows[j][col] # NaN}
        IN IF prev = {} THEN NaN
           ELSE rows[CHOOSE j \in prev : \A k \in prev : k <= j][col]]

InitQuotes ==
    /\ MainIdle
    /\ OthersIdle("quotes")
    /\ \E d \in UNION {[1..n -> Ticks] : n \in 1..MaxTicks} :
          quotes = [pc |-> "call", data |-> d, summary |-> FALSE, df |-> <<>>,
                    result |-> "none"]

\* lines 2058-2122: None without a bid or without an ask; else duplicates
\* dropped, one row per tick, sorted by time, duplicates dropped
BbatPivot ==
    /\ quotes.pc = "call"
    /\ LET evts == {quotes.data[i].type : i \in 1..Len(quotes.data)}
           ticks == Uniq(BditTicks(quotes.data))
           df == [i \in 1..Len(ticks) |-> PivotRow(ticks[i])]
       IN quotes' =
            IF "BEST_BID" \notin evts \/ "BEST_ASK" \notin evts
            THEN [quotes EXCEPT !.pc = "returned", !.result = "None"]
            ELSE [quotes EXCEPT !.pc = "pivoted", !.df = Uniq(SortByTime(df))]
    /\ UNCHANGED mainVars
    /\ OthersUnchanged("quotes")

\* lines 2137-2142: the bid and ask columns are filled forward day by day
\* and duplicates dropped
BbatFill ==
    /\ quotes.pc = "pivoted"
    /\ LET filled == [col \in FilledCols |-> FillForward(quotes.df, col)]
           df == [i \in 1..Len(quotes.df) |->
                    [col \in DOMAIN quotes.df[i] |->
                        IF col \in FilledCols THEN filled[col][i]
                        ELSE quotes.df[i][col]]]
       IN quotes' = [quotes EXCEPT !.pc = "filled", !.df = Uniq(df)]
    /\ UNCHANGED mainVars
    /\ OthersUnchanged("quotes")

NextQuotes ==
    \/ BbatPivot
    \/ BbatFill

SpecQuotes == InitQuotes /\ [][NextQuotes]_vars

(***************************************************************************)
(* The statistics _bbat computes on that table (lines 2148-2278), again    *)
(* with inav=False and fair_value=None.  Of the columns and of the         *)
(* summary's entries the model keeps those of the quotes, of the time      *)
(* weights and of the trade prices; the running spread twas_bps, the       *)
(* volume-weighted spread, the largest block and the trade count are left  *)
(* out.                                                                    *)
(***************************************************************************)
\* a quote of 0 kept as a price
ZeroToNaNWrong(col) == col

\* lines 2148-2149: df.loc[df[col]==0, col] = np.NaN
ZeroToNaN(col) == [i \in 1..Len(col) |-> IF col[i] = Px(0) THEN NaN ELSE col[i]]

\* line 2156, groupby([ticker, date])['time'].diff(): the seconds since the
\* previous row of the same day, missing at the first row of a day
GroupDiff(rows) ==
    [i \in 1..Len(rows) |->
        LET prev == {j \in 1..(i - 1) : DateOf(rows[j].time) = DateOf(rows[i].time)}
        IN IF prev = {} THEN NaN
           ELSE Px(rows[i].time - rows[CHOOSE j \in prev : \A k \in prev : k <= j].time)]

\* line 2156, .shift(-1): on the whole column, not day by day
ShiftUp(col) == [i \in 1..Len(col) |-> IF i = Len(col) THEN NaN ELSE col[i + 1]]

\* lines 2148-2187: the columns added to the table
BbatStats ==
    /\ quotes.pc = "filled"
    /\ LET rows == quotes.df
           idx == 1..Len(rows)
           ask == ZeroToNaN(Column(rows, "BEST_ASK_VALUE"))
           bid == ZeroToNaN(Column(rows, "BEST_BID_VALUE"))
           spread == [i \in idx |-> FSub(ask[i], bid[i])]
           mid == [i \in idx |-> FDiv(FAdd(ask[i], bid[i]), Px(2))]
           bps == [i \in idx |-> FMul(FDiv(spread[i], mid[i]), Px(10000))]
           life == ShiftUp(GroupDiff(rows))
           adj == [i \in idx |-> IF bps[i] = NaN THEN Px(0) ELSE life[i]]
           sizes == ExpandingSum(Column(rows, "TRADE_SIZE"))
           values == ExpandingSum(Column(rows, "TRADE_VALUE"))
           vwap == FillZero(FFill([i \in idx |->
                       FDiv(FMul(sizes[i], values[i]), sizes[i])]))
           day == FSum(life)
       IN quotes' = [quotes EXCEPT
            !.pc = "stats",
            !.df = [i \in idx |->
                [time |-> rows[i].time,
                 BEST_BID_VALUE |-> bid[i],
                 BEST_ASK_VALUE |-> ask[i],
                 TRADE_VALUE |-> rows[i].TRADE_VALUE,
                 TRADE_SIZE |-> rows[i].TRADE_SIZE,
                 bid_ask_spread |-> spread[i],
                 MID_VALUE |-> mid[i],
                 bid_ask_spread_bps |-> bps[i],
                 quote_life_secs |-> life[i],
                 adj_quote_life_secs |-> adj[i],
                 vwap |-> vwap[i],
                 day_secs |-> day]]]
    /\ UNCHANGED mainVars
    /\ OthersUnchanged("quotes")

\* Series.dot(): no value is missing where it is used
Dot(a, b) == FSum([i \in 1..Len(a) |-> FMul(a[i], b[i])])

\* lines 2191-2262, summary=True: the one-row frame of the day
BbatSummary ==
    /\ quotes.pc = "stats"
    /\ quotes.summary
    /\ LET rows == quotes.df
           idx == 1..Len(rows)
           bps == FillZero(Column(rows, "bid_ask_spread_bps"))
           adj == FillZero(Column(rows, "adj_quote_life_secs"))
           \* df['sum_x'] = df[x] * df['adj_quote_life_secs'], then .sum()
           weighted(col) == FSum([i \in idx |-> FMul(col[i], adj[i])])
           size == FillZero(Column(rows, "TRADE_SIZE"))
           value == FillZero(Column(rows, "TRADE_VALUE"))
       IN quotes' = [quotes EXCEPT
            !.pc = "done",
            !.result =
                [share_volume |-> FSum(size),
                 turnover |-> Dot(size, value),
                 twa_spread_bps |-> FDiv(weighted(bps), FSum(adj)),
                 presence |-> FDiv(FSum(adj), FSum(Column(rows, "quote_life_secs"))),
                 vwap |-> FDiv(Dot(size, value), FSum(size)),
                 twa_mid |-> FDiv(weighted(Column(rows, "MID_VALUE")), FSum(adj)),
                 twa_ask |-> FDiv(weighted(Column(rows, "BEST_ASK_VALUE")), FSum(adj)),
                 twa_bid |-> FDiv(weighted(Column(rows, "BEST_BID_VALUE")), FSum(adj))]]
    /\ UNCHANGED mainVars
    /\ OthersUnchanged("quotes")

\* the columns line 2276 drops before the table is returned
DroppedCols == {"quote_life_secs", "adj_quote_life_secs", "day_secs"}

\* lines 2276-2287, summary=False: the table without its working columns
BbatTable ==
    /\ quotes.pc = "stats"
    /\ ~quotes.summary
    /\ quotes' = [quotes EXCEPT
            !.pc = "done",
            !.result = [i \in 1..Len(quotes.df) |->
                [col \in (DOMAIN quotes.df[i]) \ DroppedCols |-> quotes.df[i][col]]]]
    /\ UNCHANGED mainVars
    /\ OthersUnchanged("quotes")

\* the times of the ticks of a summary: two intervals of unequal length in
\* the first day, and the first second of the next day
StatTimes == {0, 1, 3, 4}

\* bids and asks that differ in their spread, or are 0; trades
StatTicks ==
    {[time |-> t, type |-> "BEST_BID", value |-> v, size |-> 1] :
        t \in StatTimes, v \in {0, 1}}
    \cup {[time |-> t, type |-> "BEST_ASK", value |-> v, size |-> 1] :
        t \in StatTimes, v \in {0, 2, 3}}
    \cup {[time |-> t, type |-> "TRADE", value |-> 1, size |-> 1] : t \in StatTimes}

\* the sequences of n ticks of T in the order of their times, as an
\* IntradayTickResponse lists them
TimeOrdered(T, n) ==
    {d \in [1..n -> T] : \A i \in 1..(n - 1) : d[i].time <= d[i + 1].time}

InitStats ==
    /\ MainIdle
    /\ OthersIdle("quotes")
    /\ \E n \in 1..MaxTicks :
          \E d \in TimeOrdered(StatTicks, n) :
              quotes = [pc |-> "call", data |-> d, summary |-> TRUE, df |-> <<>>,
                        result |-> "none"]

NextStats ==
    \/ BbatPivot
    \/ BbatFill
    \/ BbatStats
    \/ BbatSummary

SpecStats == InitStats /\ [][NextStats]_vars

\* one bid and one ask, and trades of two prices and two sizes
VwapTicks ==
    {[time |-> 0, type |-> "BEST_BID", value |-> 1, size |-> 1],
     [time |-> 0, type |-> "BEST_ASK", value |-> 2, size |-> 1]}
    \cup {[time |-> t, type |-> "TRADE", value |-> v, size |-> z] :
        t \in {0, 1}, v \in {1, 2}, z \in {1, 2}}

InitVwap ==
    /\ MainIdle
    /\ OthersIdle("quotes")
    /\ \E d \in UNION {[1..n -> VwapTicks] : n \in 1..MaxTicks} :
          quotes = [pc |-> "call", data |-> d, summary |-> FALSE, df |-> <<>>,
                    result |-> "none"]

NextVwap ==
    \/ BbatPivot
    \/ BbatFill
    \/ BbatStats
    \/ BbatTable

SpecVwap == InitVwap /\ [][NextVwap]_vars

(***************************************************************************)
(* What the claims speak of.                                               *)
(***************************************************************************)
\* the vendor data requests sent so far (con.ref / con.bulkref / con.bdh)
DataRequests == SelectSeq(requests, LAMBDA q : q.rtype # "startSession")

\* the call got past the override check
OvrdsAccepted == OvrdError(field_ovrds, Len(tickers)) = NoErr

\* the user's override value for input row i, straight from the arguments
RowOvrdValue(i) ==
    IF field_ovrds.shape = "none" THEN "no override"
    ELSE IF field_ovrds.shape \in {"scalar", "str"} THEN field_ovrds.vals[1]
    ELSE field_ovrds.vals[i]

\* the override value a request carries
RequestOvrdValue(q) == PairValue(q.ovrds, OvName, "no override")

\* the options a BDH request must carry
CarriesOptions(q) ==
    kind = "BDH" => /\ PairValue(q.elms, "startDate", "") = hist.start_date
                    /\ PairValue(q.elms, "endDate", "") = hist.end_date

\* the input rows whose combination of override values request q carries
RowsOf(q) == {i \in 1..Len(tickers) : RowOvrdValue(i) = RequestOvrdValue(q)}

\* the vendor has reported on the security of input row i
Reported(i) == secStatus[trans_tickers[i]] # "unknown"
HasSecurityError(i) == secStatus[trans_tickers[i]] = "secErr"
\* the vendor's response carries a value of the field for row i's security
HasValue(i) == secStatus[trans_tickers[i]] = "ok" /\ fieldStatus = "scalar"

\* the datum the vendor returns for row i's ticker in a request that carries
\* row i's own override value
OwnDatum(i) ==
    [kind |-> "scalar", security |-> ParseTicker(tickers[i]),
     ovrds |-> IF field_ovrds.shape = "none" THEN <<>>
               ELSE <<<<OvName, RowOvrdValue(i)>>>>,
     elms |-> <<>>, date |-> ""]

C2_InputAligned ==
    (kind = "BDP" /\ pc = "returned") =>
        /\ Len(output) = Len(tickers)
        /\ Len(MergeLeft(trans_tickers, InputKeys, all_data)) = Len(tickers)
        /\ \A i \in 1..Len(tickers) :
              /\ Reported(i)
              /\ (output[i] = SecurityNotFound) = HasSecurityError(i)
              /\ (output[i].kind = "scalar") = HasValue(i)
              /\ output[i].kind = "scalar"
                    => output[i].security = ParseTicker(tickers[i])

\* BDP returned on two different securities, one of them named twice, that
\* the vendor sent in reverse order and in two events
C2_Witness ==
    /\ kind = "BDP"
    /\ pc = "returned"
    /\ Len(tickers) = MaxTickers
    /\ Len(all_data) = 2
    /\ all_data[1].row.ticker = trans_tickers[Len(tickers)]
    /\ all_data[2].row.ticker = trans_tickers[1]
    /\ trans_tickers[1] # trans_tickers[Len(tickers)]
    /\ partials > 0
    /\ output[1].kind = "scalar"

C4_AbsentIsNone ==
    (kind = "BDP" /\ pc = "returned") =>
        \A i \in 1..Len(tickers) :
            (~HasSecurityError(i) /\ ~HasValue(i)) => output[i] = None

(***************************************************************************)
(* C5  Per-ticker overrides.  With a list of override values, one per      *)
(* ticker, every value BDP returns at position i was requested for ticker  *)
(* i with the i-th override value, a value the vendor returned is never    *)
(* lost, and the merge never fails; so a ticker named at two positions     *)
(* with two override values gets two independently requested values.       *)
(***************************************************************************)
C5_PerTickerOverrides ==
    (kind = "BDP" /\ field_ovrds.shape = "list" /\ OvrdsAccepted) =>
        /\ ~(pc = "raised" /\ err.what \in {"MergeError", "uneven length"})
        /\ pc = "returned" =>
              \A i \in 1..Len(tickers) :
                  /\ HasValue(i) => output[i] = OwnDatum(i)
                  /\ output[i].kind = "scalar" =>
                        /\ output[i].security = ParseTicker(tickers[i])
                        /\ output[i].ovrds = <<<<OvName, field_ovrds.vals[i]>>>>

\* one ticker at two positions, two override values, two different values
C5_Witness ==
    /\ kind = "BDP"
    /\ pc = "returned"
    /\ field_ovrds.shape = "list"
    /\ Len(tickers) = 2
    /\ trans_tickers[1] = trans_tickers[2]
    /\ field_ovrds.vals[1] # field_ovrds.vals[2]
    /\ output[1].kind = "scalar"
    /\ output[2].kind = "scalar"
    /\ output[1] # output[2]

(***************************************************************************)
(* C6  Override length check.  A list or Series override whose length      *)
(* differs from the number of tickers makes _BDP, _BDS and _BDH raise      *)
(* ValueError with no session opened and no request sent.  A single        *)
(* number or string never fails that test and is the override value of     *)
(* every request, which then serve every ticker.                           *)
(***************************************************************************)
C6_OverrideLength ==
    kind \in DataKinds =>
        /\ (field_ovrds.shape \in {"list", "Series"}
              /\ Len(field_ovrds.vals) # Len(tickers)) =>
              \/ pc = "call"
              \/ /\ pc = "raised"
                 /\ err.type = "ValueError"
                 /\ err.what = "Invalid number of overrides"
                 /\ sessionState = "none"
                 /\ requests = <<>>
                 /\ output = <<>>
        /\ field_ovrds.shape \in {"scalar", "str"} =>
              /\ pc = "raised" => sessionState # "none"
              /\ \A a \in 1..Len(DataRequests) :
                    /\ DataRequests[a].ovrds = <<<<OvName, field_ovrds.vals[1]>>>>
                    /\ Range(DataRequests[a].securities) =
                           {ParseTicker(tickers[i]) : i \in 1..Len(tickers)}
              /\ pc \in {"merge", "returned"} => Len(DataRequests) = 1

\* a Series of the wrong length stopped the call before anything was sent
C6_Witness ==
    /\ kind \in DataKinds
    /\ pc = "raised"
    /\ field_ovrds.shape = "Series"
    /\ Len(field_ovrds.vals) = Len(tickers) + 1
    /\ err.what = "Invalid number of overrides"
    /\ requests = <<>>

\* a single string was broadcast to a request for two tickers
C6_WitnessBroadcast ==
    /\ kind \in DataKinds
    /\ pc = "returned"
    /\ field_ovrds.shape = "str"
    /\ Len(tickers) = 2
    /\ Len(DataRequests) = 1
    /\ Len(DataRequests[1].securities) = 2

\* how many of the first k events of the stream are RESPONSE events
ResponsesIn(k) ==
    Cardinality({i \in 1..k : i <= Len(stream) /\ stream[i].type = "RESPONSE"})

\* the first k events are all RESPONSE or PARTIAL_RESPONSE events
AllResponses(k) ==
    k <= Len(stream) /\ \A i \in 1..k : stream[i].type \in _RESPONSE_TYPES

\* the messages of the first k events, in arrival order
MsgsUpTo(k) == Concat([i \in 1..k |-> EventAt(stream, i).msgs])

(***************************************************************************)
(* C7  Response draining.  _receive_events(sent_events=n) reads on as long *)
(* as it has seen only PARTIAL_RESPONSE and fewer than n RESPONSE events,  *)
(* has then yielded every message of every event read, in arrival order,   *)
(* and stops on the n-th RESPONSE event, which is the last event it reads. *)
(***************************************************************************)
C7_Drain ==
    pc = "generator" =>
        /\ gen = "running" =>
              /\ AllResponses(nread)
              /\ ResponsesIn(nread) < sent_arg
              /\ yielded = MsgsUpTo(nread)
        /\ gen = "stopped" =>
              /\ AllResponses(nread)
              /\ stream[nread].type = "RESPONSE"
              /\ ResponsesIn(nread) = sent_arg
              /\ ResponsesIn(nread - 1) = sent_arg - 1
              /\ yielded = MsgsUpTo(nread)
        /\ (AllResponses(nread) /\ ResponsesIn(nread) = sent_arg) => gen = "stopped"
        /\ sent_events = sent_arg - ResponsesIn(IF gen = "raised" THEN nread - 1
                                                ELSE nread)

\* the drain of two requests read across a PARTIAL_RESPONSE event of two
\* messages and stopped on the second RESPONSE
C7_Witness ==
    /\ pc = "generator"
    /\ gen = "stopped"
    /\ sent_arg = 2
    /\ nread = 3
    /\ \E i \in 1..nread : stream[i].type = "PARTIAL_RESPONSE" /\ stream[i].n = 2
    /\ Len(yielded) > nread

\* the drain stopped with an event of the stream left unread
C7_WitnessUnread ==
    /\ pc = "generator"
    /\ gen = "stopped"
    /\ nread < Len(stream)
    /\ \E i \in 1..nread : stream[i].type = "PARTIAL_RESPONSE"

(***************************************************************************)
(* C8  Non-response events.  As stated: a TIMEOUT event raises             *)
(* RuntimeError (timeout), any other event that is neither RESPONSE nor    *)
(* PARTIAL_RESPONSE raises RuntimeError (unexpected event type), and no    *)
(* further event is read.                                                  *)
(***************************************************************************)
C8_NonResponseRaises ==
    (pc = "generator" /\ nread > 0
        /\ EventAt(stream, nread).type \notin _RESPONSE_TYPES) =>
        /\ gen = "raised"
        /\ err.type = "RuntimeError"
        /\ err.what = IF EventAt(stream, nread).type = "TIMEOUT" THEN "Timeout"
                      ELSE "Unexpected Event Type"

\* the kinds of call that go through ref or bulkref
RefKinds == {"BDP", "BDS"} \cup HistKinds

\* the vendor has reported on a security that has no security error
ValidReported == \E s \in AllSecs : secStatus[s] \in {"ok", "nodata"}

(***************************************************************************)
(* C9  Invalid field.  In a call that goes through ref or bulkref, as soon *)
(* as a response carries a security with a field exception of subcategory  *)
(* INVALID_FIELD the call has raised ValueError naming the field and       *)
(* returns nothing.  A field exception of another subcategory never        *)
(* raises: the field's value is the absent value (NaN) in every row.       *)
(***************************************************************************)
C9_InvalidField ==
    kind \in RefKinds =>
        /\ (fieldStatus = "INVALID_FIELD" /\ ValidReported) =>
              /\ pc = "raised"
              /\ err = Raise("ValueError", "INVALID_FIELD", TheField)
              /\ output = <<>>
        /\ fieldStatus = "NOT_APPLICABLE_TO_REF_DATA" =>
              /\ pc # "raised"
              /\ \A i \in 1..Len(data) :
                    data[i].value \in {NaN, SecurityNotFound}
              /\ \A i \in 1..Len(all_data) :
                    all_data[i].row.value \in {NaN, SecurityNotFound}
              /\ (kind = "BDP" /\ pc = "returned") =>
                    \A i \in 1..Len(output) :
                        output[i] = IF HasSecurityError(i) THEN SecurityNotFound
                                    ELSE NaN

\* a bulk reference call raised on INVALID_FIELD in the middle of a response
C9_Witness ==
    /\ kind = "BDS"
    /\ pc = "raised"
    /\ fieldStatus = "INVALID_FIELD"
    /\ err.what = "INVALID_FIELD"
    /\ err.field = TheField
    /\ partials > 0

\* BDP returned NaN for a field that does not apply to reference data
C9_WitnessOther ==
    /\ kind = "BDP"
    /\ pc = "returned"
    /\ fieldStatus = "NOT_APPLICABLE_TO_REF_DATA"
    /\ secStatus[trans_tickers[1]] = "ok"
    /\ output[1] = NaN

\* the requests whose final RESPONSE has not been consumed
Outstanding == {r \in 1..Len(inflight) : inflight[r].open}

UploadSends == Len(upload.sent)

\* the upload is over: it returned or raised
UploadDone == upload.pc \in {"returned", "raised"}

\* what the upload may do and return
UploadSafe ==
    upload.pc # "idle" =>
        /\ UploadSends <= upload.num_retries
        /\ upload.attempts_remaining >= 0
        /\ upload.attempts_remaining + UploadSends <= upload.num_retries
        \* no attempt follows a success
        /\ \A i \in 1..UploadSends :
              upload.sent[i].status = S_SUCCESS => i = UploadSends
        /\ upload.pc = "returned" =>
              /\ UploadSends >= 1
              /\ upload.resp.msg = [attempt |-> UploadSends,
                                    nth |-> upload.sent[UploadSends].msgs,
                                    status |-> upload.sent[UploadSends].status]
              /\ upload.result_status_code = upload.sent[UploadSends].status
              /\ upload.result_status_code = S_SUCCESS
                    \/ UploadSends = upload.num_retries

(***************************************************************************)
(* C11  Bounded upload retry.  _attempt_upload_request sends the chunk at  *)
(* most num_retries times, makes no attempt after one whose status is      *)
(* S_SUCCESS, returns the last message and the status of the last attempt  *)
(* made, and always comes to an end (it returns or raises).                *)
(***************************************************************************)
C11_BoundedRetry == []UploadSafe /\ <>UploadDone

\* the upload gave up after num_retries = 4 failed attempts
C11_Witness ==
    /\ upload.pc = "returned"
    /\ upload.num_retries = 4
    /\ UploadSends = 4
    /\ upload.result_status_code # S_SUCCESS
    /\ upload.sent[1].status # upload.sent[4].status

\* the upload stopped on a success with attempts left
C11_WitnessSuccess ==
    /\ upload.pc = "returned"
    /\ UploadSends = 2
    /\ upload.attempts_remaining = 2
    /\ upload.result_status_code = S_SUCCESS

(***************************************************************************)
(* C12  bopen manages the session.  Once con.start() has returned, the     *)
(* session is not stopped while the with-block runs and has been stopped   *)
(* exactly once when the block is left, whether it ran off its end or      *)
(* raised; an exception of the block goes on to the caller.                *)
(***************************************************************************)
C12_StoppedOnce ==
    (managed.pc # "idle" /\ managed.started) =>
        /\ managed.pc = "block" => managed.stops = 0
        /\ managed.pc = "left" => managed.stops = 1
        /\ (managed.pc = "block") = (managed.exc = NoErr /\ managed.stops = 0)

\* the second call of a block raised and the session was stopped
C12_Witness ==
    /\ managed.pc = "left"
    /\ managed.started
    /\ Len(managed.calls) = 1
    /\ managed.exc.type = "ValueError"
    /\ managed.stops = 1

\* a block ran off its end after two calls and the session was stopped
C12_WitnessNormal ==
    /\ managed.pc = "left"
    /\ Len(managed.calls) = 2
    /\ managed.exc = NoErr
    /\ managed.stops = 1

\* the canonical form of each input form, written out
Canonical(t) ==
    CASE t = DocIsin -> <<"/","i","s","i","n","/","I","E","0","0","B","Y","V","Z","V","7","5","7">>
      [] t = DocIsinSource -> <<"/","i","s","i","n","/","I","E","0","0","B","Y","V","Z","V","7","5","7","@","B","V","A","L">>
      [] t = DocIsinExch -> <<"/","i","s","i","n","/","I","E","0","0","B","Y","V","Z","V","7","5","7"," ","L","N">>
      [] t = DocSedol -> <<"/","s","e","d","o","l","/","2","0","4","6","2","5","1">>
      [] t = DocSedolSource -> <<"/","s","e","d","o","l","/","2","0","4","6","2","5","1","@","B","G","N">>
      [] t = DocSedolExch -> <<"/","s","e","d","o","l","/","2","0","4","6","2","5","1"," ","U","S">>
      [] t = DocTicker -> <<"B","B","E","G"," ","L","N"," ","E","Q","U","I","T","Y">>
      [] t = LowerSedolExch -> <<"/","s","e","d","o","l","/","2","0","4","6","2","5","1"," ","U","S">>
      [] t = LowerIsinExch -> <<"/","i","s","i","n","/","I","E","0","0","B","Y","V","Z","V","7","5","7"," ","L","N">>
      [] t = IsinAsSedol -> <<"/","i","s","i","n","/","I","E","0","0","B","Y","V","Z","V","7","5","7">>

\* the list _parse_tickers was given
NormGiven == IF norm.tickers.str THEN <<norm.tickers.val>> ELSE norm.tickers.val

(***************************************************************************)
(* C13  Ticker normalisation.  _parse_tickers returns a list as long as    *)
(* its input and in its order, in which every documented form has its      *)
(* canonical form: '/isin/<first token>' or '/sedol/<first token>' with    *)
(* ' <XX>' when an exchange code is present, the upper-cased and stripped  *)
(* ticker otherwise.                                                       *)
(***************************************************************************)
C13_Normalised ==
    norm.pc = "returned" =>
        /\ Len(norm.new_tick) = Len(NormGiven)
        /\ \A i \in 1..Len(NormGiven) :
              norm.new_tick[i] = Canonical(NormGiven[i])

\* an ISIN with an exchange code and a plain ticker, in this order
C13_Witness ==
    /\ norm.pc = "returned"
    /\ ~norm.tickers.str
    /\ norm.tickers.val = <<DocIsinExch, DocTicker>>
    /\ norm.new_tick[1] = IsinPrefix \o SubSeq(DocIsinExch, 1, 15)
    /\ norm.new_tick[2] = StrUpper(DocTicker)

\* the value of calendarCodeOverride on request q
CalendarOf(q) == PairValue(q.elms, "calendarCodeOverride", "not sent")

(***************************************************************************)
(* C14  Calendar override.  Every historical request of a BDH call with    *)
(* the daily period and a cdr code carries calendarCodeOverride set to the *)
(* upper-cased code; with another period the code is not sent.             *)
(***************************************************************************)
C14_CalendarSent ==
    kind = "BDH" =>
        \A r \in 1..Len(DataRequests) :
            /\ (hist.period = "D" /\ hist.cdr # "None")
                    => CalendarOf(DataRequests[r]) = CdrUpper(hist.cdr)
            /\ hist.period # "D" => CalendarOf(DataRequests[r]) = "not sent"

\* what the code does: no request carries calendarCodeOverride at all,
\* while the period each one carries is the one asked for
C14_CalendarNeverSent ==
    kind = "BDH" =>
        \A r \in 1..Len(DataRequests) :
            /\ CalendarOf(DataRequests[r]) = "not sent"
            /\ PairValue(DataRequests[r].elms, "periodicitySelection", "")
                    = per_lookup(hist.period)

\* a daily BDH with cdr='us' has sent its request
C14_WitnessDaily ==
    /\ kind = "BDH"
    /\ hist.period = "D"
    /\ hist.cdr = "us"
    /\ Len(DataRequests) = 1

\* a monthly BDH with cdr='us' has sent its request
C14_WitnessMonthly ==
    /\ kind = "BDH"
    /\ hist.period = "M"
    /\ hist.cdr = "us"
    /\ Len(DataRequests) = 1

\* _BDH has stopped its session: the tail of the call has run
BdhTailRan == kind = "BDH" /\ sessionState = "stopped"

(***************************************************************************)
(* C15  Return shape of BDH.  When start_date equals end_date the call     *)
(* returns one value per input ticker in input order, for a list and for a *)
(* Series of tickers alike; when the dates differ it returns a table of    *)
(* (ticker, date, field) with the original ticker of the row's input, one  *)
(* row per returned date and at least one row per input ticker.            *)
(***************************************************************************)
C15_ReturnShape ==
    BdhTailRan =>
        /\ pc = "returned"
        /\ hist.start_date = hist.end_date => Len(output) = Len(tickers)
        /\ hist.start_date # hist.end_date =>
              /\ \A i \in 1..Len(tickers) :
                    \E j \in 1..Len(output) : output[j].ticker = tickers[i]
              /\ \A j \in 1..Len(output) :
                    \E i \in 1..Len(tickers) : output[j].ticker = tickers[i]

\* the same for a list of tickers only: this much the code does
C15_ReturnShapeList ==
    (BdhTailRan /\ ~hist.series) =>
        /\ pc = "returned"
        /\ hist.start_date = hist.end_date =>
              /\ Len(output) = Len(tickers)
              /\ \A i \in 1..Len(tickers) :
                    output[i].kind = "scalar"
                        => output[i].security = ParseTicker(tickers[i])
        /\ hist.start_date # hist.end_date =>
              /\ \A i \in 1..Len(tickers) :
                    \E j \in 1..Len(output) : output[j].ticker = tickers[i]
              /\ \A j, k \in 1..Len(output) :
                    j < k => \E a, b \in 1..Len(tickers) :
                                /\ a <= b
                                /\ output[j].ticker = tickers[a]
                                /\ output[k].ticker = tickers[b]

\* a Series of tickers with dates that differ: the table carries its index
C15_SeriesTable ==
    (BdhTailRan /\ hist.series /\ hist.start_date # hist.end_date) =>
        /\ pc = "returned"
        /\ \A j \in 1..Len(output) :
              \E i \in 1..Len(tickers) :
                  /\ output[j].ticker = tickers[i]
                  /\ output[j].index = SeriesIndex[i]

\* a Series of tickers with equal dates: KeyError
C15_WitnessSeries ==
    /\ BdhTailRan
    /\ hist.series
    /\ hist.start_date = hist.end_date
    /\ pc = "raised"
    /\ err.type = "KeyError"

\* a list of two tickers with dates that differ returned two rows each
C15_WitnessTable ==
    /\ BdhTailRan
    /\ ~hist.series
    /\ pc = "returned"
    /\ Len(tickers) = 2
    /\ Len(output) = 4

(***************************************************************************)
(* C16  Wrapper transparency.  BBAT returns exactly what _BBAT returns on  *)
(* the same arguments, and BQL what _BQL returns: the wrapper calls the    *)
(* wrapped function and adds no failure of its own.                        *)
(***************************************************************************)
C16_Transparent ==
    (wrapped.pc = "done" /\ wrapped.fn \in {"BBAT", "BQL"}) =>
        /\ wrapped.called
        /\ wrapped.result = wrapped.inner

\* what the code does: neither wrapper ever reaches its wrapped function
C16_NameError ==
    (wrapped.pc = "done" /\ wrapped.fn \in {"BBAT", "BQL"}) =>
        /\ ~wrapped.called
        /\ wrapped.result.type = "NameError"
        /\ wrapped.result.name = IF wrapped.fn = "BBAT" THEN "qrm" ELSE "expresion"

\* a wrapper whose call names only its parameter hands the result through
C16_OthersTransparent ==
    (wrapped.pc = "done" /\ wrapped.fn = "HDS") =>
        /\ wrapped.called
        /\ wrapped.result = wrapped.inner

\* BBAT was called on arguments for which _BBAT returns a value
C16_WitnessBBAT ==
    /\ wrapped.pc = "done"
    /\ wrapped.fn = "BBAT"
    /\ wrapped.inner.kind = "value"

\* HDS handed a value through
C16_WitnessHDS ==
    /\ wrapped.pc = "done"
    /\ wrapped.fn = "HDS"
    /\ wrapped.result.kind = "value"

\* the vendor has answered a historical request with a security error or
\* with a field exception on some security
BdhRefused ==
    \E s \in AllSecs :
        \/ secStatus[s] = "secErr"
        \/ secStatus[s] \in {"ok", "nodata"} /\ fieldStatus # "scalar"

(***************************************************************************)
(* C17  Historical errors abort.  As soon as a message of a historical     *)
(* response carries a securityError or a non-empty fieldExceptions, the    *)
(* BDH call has raised ValueError: it returns no rows, and no row read     *)
(* before holds a sentinel in place of a value.                            *)
(***************************************************************************)
C17_HistoricalAbort ==
    kind = "BDH" =>
        /\ BdhRefused =>
              /\ pc = "raised"
              /\ err = Raise("ValueError", "HistoricalDataResponse", "")
              /\ output = <<>>
        /\ \A i \in 1..Len(data) : data[i].value.kind = "scalar"
        /\ \A i \in 1..Len(all_data) : all_data[i].row.value.kind = "scalar"

\* a second historical request met a security error after the first one
\* had returned its rows
C17_Witness ==
    /\ kind = "BDH"
    /\ pc = "raised"
    /\ err.what = "HistoricalDataResponse"
    /\ \E s \in AllSecs : secStatus[s] = "secErr"
    /\ Len(all_data) > 0
    /\ output = <<>>

\* a historical request met a field exception
C17_WitnessField ==
    /\ kind = "BDH"
    /\ pc = "raised"
    /\ fieldStatus = "INVALID_FIELD"
    /\ \A s \in AllSecs : secStatus[s] # "secErr"

\* the securities of the response parsed, in the order they came
ParsedSecs == parse.inp.shapes
\* the shape of field f of security i
ShapeOf(i, f) == IF f = 1 THEN ParsedSecs[i].f1 ELSE ParsedSecs[i].f2
\* some security holds a value for a requested field that is (not) a list
SomeShape(sh) ==
    \E i \in 1..Len(ParsedSecs), f \in 1..Len(ParseFlds) : ShapeOf(i, f) = sh
SomeInvalid ==
    \E i \in 1..Len(ParsedSecs) : ParsedSecs[i].f2 = "INVALID_FIELD"

(***************************************************************************)
(* C18  Reference parsing.  When _parse_ref returns, it returns one row    *)
(* per security of the response and requested field, securities in         *)
(* response order and fields in request order, whether or not the response *)
(* holds the field; it returns unless a value is a list or a field is      *)
(* invalid, and a list value makes it raise ValueError.  _parse_bulkref    *)
(* raises ValueError when a value it is asked for is not a list.           *)
(***************************************************************************)
C18_RowPerField ==
    /\ (parse.pc # "idle" /\ parse.pc # "call" /\ parse.which = "_parse_ref") =>
          /\ parse.pc = "returned" =>
                /\ Len(parse.data) = Len(ParsedSecs) * Len(ParseFlds)
                /\ \A i \in 1..Len(ParsedSecs), f \in 1..Len(ParseFlds) :
                      LET r == parse.data[(i - 1) * Len(ParseFlds) + f]
                      IN /\ r.ticker = SecNames[i]
                         /\ r.field = ParseFlds[f]
                         /\ ShapeOf(i, f) = "scalar" =>
                               r.value = ShapeValue(SecNames[i], ParseFlds[f], "scalar")
                         /\ ShapeOf(i, f) # "scalar" =>
                               r.value = IF ParsedSecs[i].err THEN SecurityNotFound
                                         ELSE NaN
          /\ SomeShape("list") => (parse.pc = "raised" /\ parse.err.type = "ValueError")
          /\ (~SomeShape("list") /\ ~SomeInvalid) => parse.pc = "returned"
    /\ (parse.pc # "idle" /\ parse.pc # "call" /\ parse.which = "_parse_bulkref") =>
          /\ SomeShape("scalar") => (parse.pc = "raised" /\ parse.err.type = "ValueError")
          /\ (~SomeShape("scalar") /\ ~SomeInvalid) => parse.pc = "returned"

\* _parse_ref returned four rows on two securities in two messages, the
\* first with a security error, the second without its first field
C18_Witness ==
    /\ parse.pc = "returned"
    /\ parse.which = "_parse_ref"
    /\ parse.inp.split
    /\ Len(ParsedSecs) = 2
    /\ ParsedSecs[1].err
    /\ ParsedSecs[2].f1 = "absent"
    /\ ParsedSecs[2].f2 = "scalar"
    /\ Len(parse.data) = 4
    /\ parse.data[3].value = NaN

\* _parse_ref raised on a list value
C18_WitnessList ==
    /\ parse.pc = "raised"
    /\ parse.which = "_parse_ref"
    /\ parse.err.what = "bulk reference data"

\* _parse_bulkref raised on a value that is not a list
C18_WitnessBulk ==
    /\ parse.pc = "raised"
    /\ parse.which = "_parse_bulkref"
    /\ parse.err.what = "not bulk reference data"

\* the data requests whose final RESPONSE event the drain has read
Closed == {r \in 1..Len(inflight) :
              requests[r].rtype # "startSession" /\ ~inflight[r].open}

\* the date column of a row of ref_hist is the date its value was asked for
DateMatches(r) == r.value.kind = "scalar" => r.corrId = <<r.value.date>>

(***************************************************************************)
(* C19  Date tagging in ref_hist.  ref_hist sends one request per date     *)
(* with the date as correlation id, its drain ends when it has read        *)
(* exactly len(dates) RESPONSE events, every row carries the date of the   *)
(* request that produced it however the responses arrive, and the output   *)
(* is sorted by date.  With empty dates it raises ValueError and has sent  *)
(* no request.                                                             *)
(***************************************************************************)
C19_DateTagged ==
    kind = "ref_hist" =>
        /\ Len(DataRequests) <= Len(hist.dates)
        /\ \A r \in 1..Len(DataRequests) :
              /\ DataRequests[r].cid = hist.dates[r]
              /\ OvrdValue(DataRequests[r], "REFERENCE_DATE", "") = hist.dates[r]
        /\ pc \in {"drain", "merge", "returned"} =>
              Len(DataRequests) = Len(hist.dates)
        /\ pc = "drain" => Cardinality(Closed) < Len(hist.dates)
        /\ pc \in {"merge", "returned"} => Cardinality(Closed) = Len(hist.dates)
        /\ \A i \in 1..Len(data) : DateMatches(data[i])
        /\ \A i \in 1..Len(all_data) : DateMatches(all_data[i].row)
        /\ pc = "returned" =>
              /\ Len(output) = Len(all_data)
              /\ Len(output) = Len(hist.dates) * Len(tickers)
              /\ \A i \in 1..Len(output) : DateMatches(output[i])
              /\ \A i, j \in 1..Len(output) :
                    i < j => Rank(output[i].corrId[1]) <= Rank(output[j].corrId[1])
        /\ Len(hist.dates) = 0 =>
              /\ DataRequests = <<>>
              /\ pc \in {"call", "open", "init", "loop", "raised"}
              /\ pc = "raised" => err = Raise("ValueError", "dates must by non empty", "")

\* ref_hist returned on the dates in reverse, the response on the second
\* request read first
C19_Witness ==
    /\ kind = "ref_hist"
    /\ pc = "returned"
    /\ hist.dates = <<Dates[2], Dates[1]>>
    /\ all_data[1].row.corrId = <<Dates[1]>>
    /\ output[1].value.kind = "scalar"
    /\ output[1].value.date = Dates[1]
    /\ output[Len(output)].corrId = <<Dates[2]>>

\* ref_hist raised on empty dates
C19_WitnessEmpty ==
    /\ kind = "ref_hist"
    /\ Len(hist.dates) = 0
    /\ pc = "raised"
    /\ sessionState = "started"

\* the ticks of type ty on the day of time t, by their place in ticks
DayTicks(ticks, ty, t) ==
    {i \in 1..Len(ticks) : ticks[i].type = ty /\ DateOf(ticks[i].time) = DateOf(t)}

\* the value of the latest of the ticks of type ty of the day of t whose
\* time is in upto, the last to arrive among those of one time; NaN if none
LatestValue(ticks, ty, t, upto) ==
    LET among == {i \in DayTicks(ticks, ty, t) : ticks[i].time \in upto}
        latest == {i \in among : \A j \in among : ticks[j].time <= ticks[i].time}
    IN IF latest = {} THEN NaN
       ELSE Px(ticks[CHOOSE i \in latest : \A j \in latest : j <= i].value)

\* the claim on column col, filled from the ticks of type ty
LatestInColumn(col, ty) ==
    \A r \in 1..Len(quotes.df) :
        LET t == quotes.df[r].time
        IN LatestValue(quotes.data, ty, t, 0..t) # NaN
              => quotes.df[r][col] = LatestValue(quotes.data, ty, t, 0..t)

(***************************************************************************)
(* C20  Continuous quote timeline.  In the table _bbat builds the rows are *)
(* ordered by time, and at every row at or after the first BEST_BID event  *)
(* of its day BEST_BID_VALUE is the value of the latest BEST_BID event at  *)
(* or before the row's time; the same for BEST_ASK_VALUE and BEST_ASK      *)
(* events.  No value comes from another day or from a later event.         *)
(***************************************************************************)
C20_QuoteTimeline ==
    quotes.pc = "filled" =>
        /\ \A i, j \in 1..Len(quotes.df) :
              i < j => quotes.df[i].time <= quotes.df[j].time
        /\ LatestInColumn("BEST_BID_VALUE", "BEST_BID")
        /\ LatestInColumn("BEST_ASK_VALUE", "BEST_ASK")

\* the same of the rows only that share their time with no tick of the
\* type: the value of the latest tick before the row's time
C20_LatestBefore ==
    quotes.pc = "filled" =>
        \A r \in 1..Len(quotes.df) :
            LET t == quotes.df[r].time
            IN LatestValue(quotes.data, "BEST_BID", t, {t}) = NaN
                  => quotes.df[r].BEST_BID_VALUE
                        = LatestValue(quotes.data, "BEST_BID", t, 0..(t - 1))

\* what the code does: the rows are ordered by time, and a row that shares
\* its time with no tick of the type holds the value of the latest of the
\* ticks _BDIT kept; a value a row holds is that of a tick of its day at or
\* before its time with no tick of the type strictly between
C20_KeptTicks ==
    quotes.pc = "filled" =>
        /\ \A i, j \in 1..Len(quotes.df) :
              i < j => quotes.df[i].time <= quotes.df[j].time
        /\ \A r \in 1..Len(quotes.df) :
            \A c \in {<<"BEST_BID_VALUE", "BEST_BID">>, <<"BEST_ASK_VALUE", "BEST_ASK">>} :
              LET t == quotes.df[r].time
                  cell == quotes.df[r][c[1]]
                  kept == BditTicks(quotes.data)
              IN /\ LatestValue(kept, c[2], t, {t}) = NaN
                        => cell = LatestValue(kept, c[2], t, 0..(t - 1))
                 /\ cell # NaN =>
                        \E i \in DayTicks(kept, c[2], t) :
                            /\ kept[i].time <= t
                            /\ cell = Px(kept[i].value)
                            /\ \A j \in DayTicks(kept, c[2], t) :
                                  ~(kept[i].time < kept[j].time /\ kept[j].time < t)

\* a bid that went from 1 to 2 and back to 1 within one second: the row
\* of the ask of the next second holds 2
C20_WitnessStale ==
    /\ quotes.pc = "filled"
    /\ quotes.data = <<[time |-> 0, type |-> "BEST_BID", value |-> 1, size |-> 1],
                        [time |-> 0, type |-> "BEST_BID", value |-> 2, size |-> 1],
                        [time |-> 0, type |-> "BEST_BID", value |-> 1, size |-> 1],
                        [time |-> 1, type |-> "BEST_ASK", value |-> 1, size |-> 1]>>
    /\ Len(quotes.df) = 3
    /\ quotes.df[3].time = 1
    /\ quotes.df[3].BEST_BID_VALUE = Px(2)

\* a bid of the first day, then an ask and a bid of the second day: the ask
\* row of the second day holds no bid
C20_WitnessDays ==
    /\ quotes.pc = "filled"
    /\ Len(quotes.df) = 3
    /\ DateOf(quotes.df[1].time) # DateOf(quotes.df[2].time)
    /\ quotes.df[1].BEST_BID_VALUE # NaN
    /\ quotes.df[2].BEST_BID_VALUE = NaN
    /\ quotes.df[2].BEST_ASK_VALUE # NaN
    /\ quotes.df[3].BEST_BID_VALUE # NaN
    /\ quotes.df[3].BEST_ASK_VALUE = quotes.df[2].BEST_ASK_VALUE

\* an ask and a bid of the same second, the ask first: its row holds no bid
C20_WitnessTie ==
    /\ quotes.pc = "filled"
    /\ quotes.data = <<[time |-> 1, type |-> "BEST_ASK", value |-> 1, size |-> 1],
                        [time |-> 1, type |-> "BEST_BID", value |-> 2, size |-> 1]>>
    /\ quotes.df[1].BEST_BID_VALUE = NaN
    /\ quotes.df[2].BEST_BID_VALUE = Px(2)

\* the seconds from row i of a table to the row after it, 0 when that row is
\* of another day or there is none
SecsToNext(rows, i) ==
    IF i < Len(rows) /\ DateOf(rows[i + 1].time) = DateOf(rows[i].time)
    THEN rows[i + 1].time - rows[i].time
    ELSE 0

\* the rows of a table that hold a bid and an ask, neither of them 0
TwoSided(rows) ==
    {i \in 1..Len(rows) :
        /\ rows[i].BEST_BID_VALUE # NaN /\ rows[i].BEST_BID_VALUE # Px(0)
        /\ rows[i].BEST_ASK_VALUE # NaN /\ rows[i].BEST_ASK_VALUE # Px(0)}

\* the seconds of the rows in among, summed
SecsOver(rows, among) ==
    FSum([i \in 1..Len(rows) |-> IF i \in among THEN Px(SecsToNext(rows, i)) ELSE Px(0)])

\* the average of column col over the two-sided rows, each weighted by its
\* seconds
TimeWeighted(rows, col) ==
    FDiv(FSum([i \in 1..Len(rows) |->
                IF i \in TwoSided(rows)
                THEN FMul(rows[i][col], Px(SecsToNext(rows, i))) ELSE Px(0)]),
         SecsOver(rows, TwoSided(rows)))

\* a step of the statistics: a one-sided row gets weight 0 and loses the
\* side that is 0, a two-sided row gets the seconds to the next row of its
\* day (none at the last row of a day) and its spread in basis points
C21_Weights ==
    (quotes.pc = "filled" /\ quotes'.pc = "stats") =>
        /\ Len(quotes'.df) = Len(quotes.df)
        /\ \A i \in 1..Len(quotes.df) :
            LET old == quotes.df[i]
                new == quotes'.df[i]
                nxt == /\ i < Len(quotes.df)
                       /\ DateOf(quotes.df[i + 1].time) = DateOf(old.time)
            IN /\ new.time = old.time
               /\ new.quote_life_secs =
                    IF nxt THEN Px(SecsToNext(quotes.df, i)) ELSE NaN
               /\ i \notin TwoSided(quotes.df) =>
                    /\ new.adj_quote_life_secs = Px(0)
                    /\ new.BEST_BID_VALUE = NaN \/ new.BEST_ASK_VALUE = NaN
               /\ i \in TwoSided(quotes.df) =>
                    /\ new.adj_quote_life_secs = new.quote_life_secs
                    /\ new.BEST_BID_VALUE = old.BEST_BID_VALUE
                    /\ new.BEST_ASK_VALUE = old.BEST_ASK_VALUE
                    /\ new.bid_ask_spread_bps =
                         Frac(20000 * (old.BEST_ASK_VALUE.n - old.BEST_BID_VALUE.n),
                              old.BEST_ASK_VALUE.n + old.BEST_BID_VALUE.n)

\* a step of the summary: the time-weighted averages are taken over the
\* two-sided rows, and presence is their share of the seconds
C21_Averages ==
    (quotes.pc = "stats" /\ quotes'.pc = "done" /\ quotes.summary) =>
        LET rows == quotes.df
            dats == quotes'.result
            all == SecsOver(rows, 1..Len(rows))
        IN /\ dats.twa_spread_bps = TimeWeighted(rows, "bid_ask_spread_bps")
           /\ dats.twa_bid = TimeWeighted(rows, "BEST_BID_VALUE")
           /\ dats.twa_ask = TimeWeighted(rows, "BEST_ASK_VALUE")
           /\ dats.twa_mid = TimeWeighted(rows, "MID_VALUE")
           /\ dats.presence = FDiv(SecsOver(rows, TwoSided(rows)), all)
           /\ all.n > 0 => /\ dats.presence # NaN
                           /\ 0 <= dats.presence.n
                           /\ dats.presence.n <= dats.presence.d
           /\ all.n = 0 => dats.presence = NaN

(***************************************************************************)
(* C21  Time weighting ignores one-sided quotes.  The weight of a row is   *)
(* the number of seconds to the next row of its day; a row whose bid or    *)
(* ask is missing or 0 has weight 0 in twa_spread_bps, twa_bid, twa_ask    *)
(* and twa_mid, each of which is the sum of value x seconds over the       *)
(* two-sided rows divided by the sum of their seconds; presence is the     *)
(* two-sided seconds divided by all seconds and lies between 0 and 1       *)
(* whenever some row is followed, later, by a row of its day; when no      *)
(* second passes between the rows of a day presence is NaN.                *)
(***************************************************************************)
C21_TimeWeighted == [][C21_Weights /\ C21_Averages]_vars

\* C21 as stated: the presence of a summary always lies between 0 and 1
C21_PresenceInUnit ==
    (quotes.pc = "done" /\ quotes.summary) =>
        /\ quotes.result.presence.kind = "float"
        /\ 0 <= quotes.result.presence.n
        /\ quotes.result.presence.n <= quotes.result.presence.d

\* a summary of a day in which a bid of 0 and a one-sided row have lasted
\* for some seconds and a two-sided row for others: presence lies strictly
\* between 0 and 1
C21_Witness ==
    /\ quotes.pc = "done"
    /\ quotes.summary
    /\ \E i \in 1..Len(quotes.data) :
          quotes.data[i].type = "BEST_BID" /\ quotes.data[i].value = 0
    /\ \E i \in 1..Len(quotes.df) :
          /\ i \notin TwoSided(quotes.df)
          /\ SecsToNext(quotes.df, i) > 0
          /\ quotes.df[i].adj_quote_life_secs = Px(0)
    /\ \E i \in TwoSided(quotes.df) : SecsToNext(quotes.df, i) > 0
    /\ quotes.result.presence # NaN
    /\ 0 < quotes.result.presence.n
    /\ quotes.result.presence.n < quotes.result.presence.d
    /\ quotes.result.twa_spread_bps # NaN

\* two two-sided rows of unequal spread that last 1 and 2 seconds: the
\* time-weighted spread is not the plain average of the two
C21_WitnessUnequal ==
    /\ quotes.pc = "done"
    /\ quotes.summary
    /\ \E i, j \in TwoSided(quotes.df) :
          /\ SecsToNext(quotes.df, i) = 1
          /\ SecsToNext(quotes.df, j) = 2
          /\ quotes.df[i].bid_ask_spread_bps # quotes.df[j].bid_ask_spread_bps
          /\ quotes.result.twa_spread_bps =
                FDiv(FAdd(quotes.df[i].bid_ask_spread_bps,
                          FMul(Px(2), quotes.df[j].bid_ask_spread_bps)), Px(3))

\* all the ticks of the day in one second: no second passes, presence is NaN
C21_WitnessNoSeconds ==
    /\ quotes.pc = "done"
    /\ quotes.summary
    /\ Len(quotes.df) >= 2
    /\ quotes.result.presence = NaN

\* the rows of a table, up to row r, that hold a trade
TradesUpTo(rows, r) == {i \in 1..r : rows[i].TRADE_SIZE # NaN}

\* the volume-weighted average price of the trades in among:
\* sum(TRADE_SIZE x TRADE_VALUE) / sum(TRADE_SIZE)
VolumeWeighted(rows, among) ==
    FDiv(FSum([i \in 1..Len(rows) |->
                IF i \in among THEN FMul(rows[i].TRADE_SIZE, rows[i].TRADE_VALUE)
                ELSE Px(0)]),
         FSum([i \in 1..Len(rows) |-> IF i \in among THEN rows[i].TRADE_SIZE ELSE Px(0)]))

(***************************************************************************)
(* C22  Running VWAP.  In the table _bbat returns with summary=False the   *)
(* vwap of a row is the volume-weighted average price of the trades up to  *)
(* and including that row, sum(TRADE_SIZE x TRADE_VALUE) divided by        *)
(* sum(TRADE_SIZE), and it is 0 before the first trade.                    *)
(***************************************************************************)
C22_RunningVwap ==
    (quotes.pc = "done" /\ ~quotes.summary) =>
        \A r \in 1..Len(quotes.result) :
            quotes.result[r].vwap =
                IF TradesUpTo(quotes.result, r) = {} THEN Px(0)
                ELSE VolumeWeighted(quotes.result, TradesUpTo(quotes.result, r))

\* what line 2176 computes: sum(TRADE_SIZE) x sum(TRADE_VALUE) divided by
\* sum(TRADE_SIZE), the sum of the prices of the trades so far whatever
\* their sizes; 0 before the first trade
C22_SumOfPrices ==
    (quotes.pc = "done" /\ ~quotes.summary) =>
        \A r \in 1..Len(quotes.result) :
            quotes.result[r].vwap =
                FSum([i \in 1..r |-> quotes.result[i].TRADE_VALUE])

\* a table with two trades of one share each, at 1 and then at 2: the vwap
\* of the last row is 3, above both prices
C22_WitnessTwoTrades ==
    /\ quotes.pc = "done"
    /\ ~quotes.summary
    /\ \E r \in 1..Len(quotes.result) :
          /\ Cardinality(TradesUpTo(quotes.result, r)) = 2
          /\ \A i \in TradesUpTo(quotes.result, r) : quotes.result[i].TRADE_SIZE = Px(1)
          /\ VolumeWeighted(quotes.result, TradesUpTo(quotes.result, r)) = Frac(3, 2)
          /\ quotes.result[r].vwap = Px(3)

\* a table with one trade: its price from the row of the trade on, 0 before
C22_WitnessOneTrade ==
    /\ quotes.pc = "done"
    /\ ~quotes.summary
    /\ Len(quotes.result) = 3
    /\ quotes.result[1].vwap = Px(0)
    /\ quotes.result[2].TRADE_VALUE = Px(2)
    /\ quotes.result[2].TRADE_SIZE = Px(2)
    /\ quotes.result[2].vwap = Px(2)
    /\ quotes.result[3].vwap = Px(2)

====
